---- MODULE Spec2Model ----
(***************************************************************************)
(* Model of the manufacturing record-keeping API (route_api).              *)
(*                                                                         *)
(* The store is a set of tables whose rows are never physically removed.   *)
(* Every database round trip of the program goes through                   *)
(* execute_stored_procedure (database/db.py), which is modelled step by    *)
(* step: open a connection, EXEC the procedure, commit, and the two        *)
(* except clauses with the fallback retry.  The entity services are        *)
(* modelled call site by call site on top of it.                           *)
(*                                                                         *)
(* Environment assumptions, stated once:                                   *)
(*  - whether a named stored procedure exists in the catalog is decided by *)
(*    the environment at each EXEC; no procedure is literally named "None" *)
(*    so `EXEC None ...` always fails with error 2812;                     *)
(*  - a stored procedure that exists performs the statement its call site  *)
(*    passes as fallback_sql (ProcedureBody);                              *)
(*  - a write becomes visible in the store when its transaction commits;   *)
(*    createdAt order is insertion order.                                  *)
(***************************************************************************)
EXTENDS Integers, Sequences, FiniteSets, TLC

\* ------------------------------------------------------------------ bounds
\* largest number of rows a table holds (inserts are refused by the driver
\* of the model beyond it, not by the program)
MaxRows == 2

\* ------------------------------------------------------------------ values
None == "None"
NULL == "NULL"
Reqs == {1, 2}
Users == {1}
Ids == 1..(MaxRows + 1)

\* d[k] = v on a dictionary
Put(d, k, v) == [x \in DOMAIN d \cup {k} |-> IF x = k THEN v ELSE d[x]]

Has(data, k) == k \in DOMAIN data
Get(data, k) == IF k \in DOMAIN data THEN data[k] ELSE NULL
GetOr(data, k, dflt) == IF k \in DOMAIN data THEN data[k] ELSE dflt

\* mutant: names are stored as they were sent
Strip_Kept(s) == s

\* str.strip() on the names the model uses
Strip(s) == CASE s = " a" -> "a" [] s = "a " -> "a" [] OTHER -> s

VARIABLES db, req

vars == <<db, req>>

Tables == {"Units", "MasterShifts", "Workstations", "WorkstationShifts",
           "Processes", "ProcessTechnicals", "Routes", "RouteProcess", "Products", "Users"}

\* ------------------------------------------------------------------ store
\* A statement is named by its kind and its table.
Stmt(k, t) == [k |-> k, t |-> t]

\* mutant: the INSERT statements write isActive = 0
NewRow_Inactive(t, p, id) ==
  CASE t = "Units" ->
         [id |-> id, unitName |-> p[1], description |-> p[2], unitSymbol |-> p[3],
          isActive |-> 0, CreatedBy |-> p[4]]
    [] t = "MasterShifts" ->
         [id |-> id, name |-> p[1], startTime |-> p[2], endTime |-> p[3],
          duration |-> p[4], colorCode |-> p[5], isActive |-> 0, CreatedBy |-> p[6]]
    [] t = "Workstations" ->
         [id |-> id, workstationName |-> p[1], description |-> p[2],
          isActive |-> 0, CreatedBy |-> p[3]]
    [] t = "WorkstationShifts" ->
         [id |-> id, workstationId |-> p[1], shiftId |-> p[2], startDate |-> p[3],
          endDate |-> p[4], isActive |-> 0]
    [] t = "Processes" ->
         [id |-> id, processName |-> p[1], description |-> p[2], workstationId |-> p[3],
          processTime |-> p[4], setupTime |-> p[5], isActive |-> 0, CreatedBy |-> p[6]]
    [] t = "ProcessTechnicals" ->
         [id |-> id, processId |-> p[1], unitId |-> p[2], name |-> p[3], value |-> p[4],
          isActive |-> 0, CreatedBy |-> p[5]]
    [] t = "Routes" ->
         [id |-> id, routeName |-> p[1], description |-> p[2], isMainRoute |-> p[3],
          isActive |-> 0, CreatedBy |-> p[4]]
    [] t = "RouteProcess" ->
         [id |-> id, routeId |-> p[1], processId |-> p[2], processOrder |-> p[3],
          isActive |-> 0]
    [] t = "Products" ->
         [id |-> id, productName |-> p[1], description |-> p[2], mainRouteId |-> p[3],
          isActive |-> 0, CreatedBy |-> p[4]]

\* The row an INSERT builds from its positional parameters; id is the
\* IDENTITY value, isActive is the literal 1 of every INSERT of the program.
NewRow(t, p, id) ==
  CASE t = "Units" ->
         [id |-> id, unitName |-> p[1], description |-> p[2], unitSymbol |-> p[3],
          isActive |-> 1, CreatedBy |-> p[4]]
    [] t = "MasterShifts" ->
         [id |-> id, name |-> p[1], startTime |-> p[2], endTime |-> p[3],
          duration |-> p[4], colorCode |-> p[5], isActive |-> 1, CreatedBy |-> p[6]]
    [] t = "Workstations" ->
         [id |-> id, workstationName |-> p[1], description |-> p[2],
          isActive |-> 1, CreatedBy |-> p[3]]
    [] t = "WorkstationShifts" ->
         [id |-> id, workstationId |-> p[1], shiftId |-> p[2], startDate |-> p[3],
          endDate |-> p[4], isActive |-> 1]
    [] t = "Processes" ->
         [id |-> id, processName |-> p[1], description |-> p[2], workstationId |-> p[3],
          processTime |-> p[4], setupTime |-> p[5], isActive |-> 1, CreatedBy |-> p[6]]
    [] t = "ProcessTechnicals" ->
         [id |-> id, processId |-> p[1], unitId |-> p[2], name |-> p[3], value |-> p[4],
          isActive |-> 1, CreatedBy |-> p[5]]
    [] t = "Routes" ->
         [id |-> id, routeName |-> p[1], description |-> p[2], isMainRoute |-> p[3],
          isActive |-> 1, CreatedBy |-> p[4]]
    [] t = "RouteProcess" ->
         [id |-> id, routeId |-> p[1], processId |-> p[2], processOrder |-> p[3],
          isActive |-> 1]
    [] t = "Products" ->
         [id |-> id, productName |-> p[1], description |-> p[2], mainRouteId |-> p[3],
          isActive |-> 1, CreatedBy |-> p[4]]

\* The SET clause of each UPDATE statement, applied to the row WHERE id = ?.
SetRow(t, row, p) ==
  CASE t = "Units" ->
         [row EXCEPT !.unitName = p[1], !.description = p[2], !.unitSymbol = p[3]]
    [] t = "MasterShifts" ->
         [row EXCEPT !.name = p[1], !.startTime = p[2], !.endTime = p[3],
                     !.duration = p[4], !.colorCode = p[5]]
    [] t = "Workstations" ->
         [row EXCEPT !.workstationName = p[1], !.description = p[2]]
    [] t = "Processes" ->
         [row EXCEPT !.processName = p[1], !.description = p[2], !.workstationId = p[3],
                     !.processTime = p[4], !.setupTime = p[5]]
    [] t = "Routes" ->
         [row EXCEPT !.routeName = p[1], !.description = p[2], !.isMainRoute = p[3]]
    [] t = "Products" ->
         [row EXCEPT !.productName = p[1], !.description = p[2], !.mainRouteId = p[3]]

\* the id parameter of each UPDATE (always the last one)
UpdateId(p) == p[Len(p)]

\* mutant: the pre-insert duplicate lookup finds nothing
IsDuplicate_Never(t, row, p) == FALSE

\* WHERE clause of the pre-insert duplicate lookups
IsDuplicate(t, row, p) ==
  CASE t = "Units" -> row.unitName = p[1] /\ row.unitSymbol = p[2] /\ row.isActive = 1
    [] t = "MasterShifts" ->
         row.name = p[1] /\ row.startTime = p[2] /\ row.endTime = p[3] /\ row.isActive = 1

\* v LIKE '%term%' on the one-letter values the model stores
Like(v, term) == v # NULL /\ v = term

\* WHERE clause of the search statements, term being the text between the %
Matches(t, row, term) ==
  CASE t = "Units" ->
         Like(row.unitName, term) \/ Like(row.description, term) \/ Like(row.unitSymbol, term)
    [] t = "MasterShifts" -> Like(row.name, term) \/ Like(row.colorCode, term)
    [] t = "Workstations" -> Like(row.workstationName, term) \/ Like(row.description, term)
    [] t = "Processes" -> Like(row.processName, term) \/ Like(row.description, term)
    [] t = "Routes" -> Like(row.routeName, term) \/ Like(row.description, term)
    [] t = "Products" -> Like(row.productName, term) \/ Like(row.description, term)

\* the columns the list and search statements select
ListColumns(t) ==
  CASE t = "Units" -> {"id", "unitName", "unitSymbol", "description"}
    [] t = "MasterShifts" ->
         {"id", "name", "startTime", "endTime", "duration", "colorCode", "isActive", "CreatedBy"}
    [] t = "Workstations" -> {"id", "workstationName", "description", "isActive", "CreatedBy"}
    [] t = "Processes" ->
         {"id", "processName", "description", "workstationId", "processTime", "setupTime",
          "isActive", "CreatedBy"}
    [] t = "Routes" -> {"id", "routeName", "description", "isMainRoute", "isActive", "CreatedBy"}
    [] t = "Products" -> {"id", "productName", "description", "mainRouteId", "isActive", "CreatedBy"}

Project(row, cols) == [c \in cols |-> row[c]]

\* collation order of the values the model stores; NULL sorts first
Rank(v) ==
  CASE v = NULL -> 0 [] v = "a" -> 1 [] v = "b" -> 2 [] v = "d" -> 3 [] v = "x" -> 4
    [] OTHER -> 5

\* createdAt order is insertion order; numeric columns sort by value
Key(row, col) ==
  CASE col \in {"id", "createdAt"} -> row.id
    [] col \in {"duration", "processTime", "setupTime", "isMainRoute", "mainRouteId",
                "processOrder"} -> row[col]
    [] OTHER -> Rank(row[col])

\* mutant: ORDER BY is left out, the rows come in insertion order
OrderBy_Unsorted(rows, col, dir) == rows

\* ORDER BY col dir; rows with equal keys are taken in id order
OrderBy(rows, col, dir) ==
  SortSeq(rows, LAMBDA x, y :
    IF Key(x, col) = Key(y, col) THEN x.id < y.id
    ELSE IF dir \in {"DESC", "desc"} THEN Key(x, col) > Key(y, col)
    ELSE Key(x, col) < Key(y, col))

\* OFFSET offset ROWS FETCH NEXT per_page ROWS ONLY
Page(rows, offset, per_page) ==
  SubSeq(rows, offset + 1, IF offset + per_page < Len(rows) THEN offset + per_page ELSE Len(rows))

MapSeq(rows, cols) == [i \in DOMAIN rows |-> Project(rows[i], cols)]

\* the column of a child table that references its parent
ParentColumn(t) ==
  CASE t = "WorkstationShifts" -> "workstationId"
    [] t = "ProcessTechnicals" -> "processId"
    [] t = "RouteProcess" -> "routeId"

\* WorkstationShifts ws INNER JOIN MasterShifts ms ON ws.shiftId = ms.id,
\* with the columns the shift statements select
JoinShifts(ws_rows, d) ==
  LET joined == SelectSeq(ws_rows, LAMBDA ws : ws.shiftId \in DOMAIN d.MasterShifts) IN
  [i \in DOMAIN joined |->
     [shiftAssignmentId |-> joined[i].id, shiftId |-> joined[i].shiftId,
      shiftName |-> d.MasterShifts[joined[i].shiftId].name,
      startDate |-> joined[i].startDate, endDate |-> joined[i].endDate]]

Reverse(s) == [i \in DOMAIN s |-> s[Len(s) + 1 - i]]

Last(s) == s[Len(s)]
FirstOf(s) == IF s = <<>> THEN <<>> ELSE <<s[1]>>
\* mutant: the re-fetch takes the oldest row
LastOf_Oldest(s) == IF s = <<>> THEN <<>> ELSE <<s[1]>>

LastOf(s) == IF s = <<>> THEN <<>> ELSE <<Last(s)>>

\* mutant: the lists forget the isActive filter
ActiveRows_All(T) == T

\* WHERE isActive = 1
ActiveRows(T) == SelectSeq(T, LAMBDA row: row.isActive = 1)

\* mutant: the soft delete writes nothing
Deactivated_Unchanged(row) == row

\* SET isActive = 0
Deactivated(row) == [row EXCEPT !.isActive = 0]

\* mutant: the workstation delete only deactivates
Toggled_Off(row) == [row EXCEPT !.isActive = 0]

\* SET isActive = CASE WHEN isActive = 1 THEN 0 ELSE 1 END
Toggled(row) == [row EXCEPT !.isActive = IF @ = 1 THEN 0 ELSE 1]

\* What a statement does to the store d with parameters p:
\* the new store and the rows its cursor yields.
Execute(s, p, d) ==
  LET T == d[s.t] IN
  CASE s.k = "insert" ->
         [db |-> [d EXCEPT ![s.t] = Append(T, NewRow(s.t, p, Len(T) + 1))], rows |-> <<>>]
    [] s.k = "update" ->
         [db |-> [d EXCEPT ![s.t] = [i \in DOMAIN T |->
                      IF T[i].id = UpdateId(p) THEN SetRow(s.t, T[i], p) ELSE T[i]]],
          rows |-> <<>>]
    [] s.k = "deactivate" ->
         [db |-> [d EXCEPT ![s.t] = [i \in DOMAIN T |->
                      IF T[i].id = p[2] THEN Deactivated(T[i]) ELSE T[i]]],
          rows |-> <<>>]
    [] s.k = "toggle" ->
         [db |-> [d EXCEPT ![s.t] = [i \in DOMAIN T |->
                      IF T[i].id = p[2] THEN Toggled(T[i]) ELSE T[i]]],
          rows |-> <<>>]
    [] s.k = "count_active" ->
         [db |-> d, rows |-> <<[total |-> Len(ActiveRows(T))]>>]
    [] s.k = "count_search" ->
         [db |-> d, rows |-> <<[total |-> Len(SelectSeq(ActiveRows(T), LAMBDA row:
                                   Matches(s.t, row, p[1])))]>>]
    [] s.k = "page_active" ->
         [db |-> d,
          rows |-> MapSeq(Page(OrderBy(ActiveRows(T), s.sort_by, s.sort_order),
                               s.offset, s.per_page),
                          ListColumns(s.t))]
    [] s.k = "page_search" ->
         [db |-> d,
          rows |-> MapSeq(Page(OrderBy(SelectSeq(ActiveRows(T), LAMBDA row:
                                           Matches(s.t, row, p[1])),
                                       s.sort_by, s.sort_order), s.offset, s.per_page),
                          ListColumns(s.t))]
    [] s.k = "select_duplicate" ->
         [db |-> d, rows |-> SelectSeq(T, LAMBDA row: IsDuplicate(s.t, row, p))]
    [] s.k = "select_last_created" ->
         [db |-> d, rows |-> LastOf(SelectSeq(T, LAMBDA row: row.CreatedBy = p[1]))]
    [] s.k = "select_children" ->
         [db |-> d,
          rows |-> LET rows == SelectSeq(T, LAMBDA row:
                                 row[ParentColumn(s.t)] = p[1] /\ row.isActive = 1) IN
                   IF s.t = "RouteProcess" THEN OrderBy(rows, "processOrder", "ASC")
                   ELSE rows]
    [] s.k = "select_last_child" ->
         [db |-> d, rows |-> LastOf(SelectSeq(T, LAMBDA row:
                                row.processId = p[1] /\ row.CreatedBy = p[2]))]
    [] s.k = "select_route_process" ->
         [db |-> d, rows |-> LastOf(SelectSeq(T, LAMBDA row:
                                row.routeId = p[1] /\ row.processId = p[2]
                                /\ row.processOrder = p[3]))]
    [] s.k = "select_assignment" ->
         [db |-> d, rows |-> JoinShifts(Reverse(SelectSeq(T, LAMBDA row:
                                row.workstationId = p[1] /\ row.shiftId = p[2])), d)]
    [] s.k = "select_shifts" ->
         [db |-> d, rows |-> JoinShifts(SelectSeq(T, LAMBDA row:
                                row.workstationId = p[1] /\ row.isActive = 1), d)]
    [] s.k = "select_by_id" ->
         [db |-> d, rows |-> SelectSeq(T, LAMBDA row: row.id = p[1])]
    [] s.k = "select_login" ->
         [db |-> d, rows |-> MapSeq(SelectSeq(T, LAMBDA row:
                                row.username = p[1] /\ row.password = p[2]
                                /\ row.isActive = 1), {"id"})]
    [] s.k = "select_active_by_id" ->
         [db |-> d, rows |-> SelectSeq(T, LAMBDA row: row.id = p[1] /\ row.isActive = 1)]
    [] OTHER -> [db |-> d, rows |-> <<>>]

\* allowed_columns of each list function and the default it falls back to
AllowedColumns(t) ==
  CASE t = "Units" -> {"unitName", "id", "description", "unitSymbol"}
    [] t = "MasterShifts" -> {"name", "id", "startTime", "endTime", "duration", "colorCode"}
    [] t = "Workstations" -> {"workstationName", "id", "description"}
    [] t = "Processes" -> {"processName", "id", "processTime", "setupTime", "createdAt"}
    [] t = "Routes" -> {"routeName", "id", "isMainRoute", "createdAt"}
    [] t = "Products" -> {"productName", "id", "mainRouteId", "createdAt"}

DefaultColumn(t) ==
  CASE t = "Units" -> "unitName"
    [] t = "MasterShifts" -> "name"
    [] t = "Workstations" -> "workstationName"
    [] t = "Processes" -> "processName"
    [] t = "Routes" -> "routeName"
    [] t = "Products" -> "productName"

\* A stored procedure that exists in the catalog performs the statement
\* its call site also passes as fallback_sql, as far as its parameters let
\* it: the page of a list is interpolated into the fallback statement only
\* (ORDER BY, OFFSET, FETCH NEXT) and sp_*_GetAll is executed without it, so
\* the procedure yields the same rows whatever page is asked for, here the
\* rows of the list function's default arguments.
ProcedureBody(procedure_name, sql) ==
  IF sql.k \in {"page_active", "page_search"}
  THEN [sql EXCEPT !.sort_by = DefaultColumn(sql.t), !.sort_order = "ASC",
                   !.offset = 0, !.per_page = 10]
  ELSE sql

\* ------------------------------------------------------------------ requests
\* req[r] is one request (one thread of control): the service function it
\* runs (op), where it is in it (pc), its arguments, the local variable
\* `conn` of the service function (0 is None), every connection opened on
\* its behalf with its state (conns), those execute_stored_procedure
\* returned to the service (returned), the outcome (out), and the frame of
\* the execute_stored_procedure call in progress (call), the statements of
\* the calls made so far (calls) and the store as it was at entry (db0).
\* last remembers the delete that was answered just before (the operation,
\* its id and the store it started from), for the claims about two deletes
\* in a row.
NoCall == [ipc |-> "none"]
NoOut == [kind |-> "none"]
NoLast == [op |-> "none"]
EmptyDb == [t \in Tables |-> <<>>]

IdleReq == [op |-> "idle", pc |-> "done", data |-> <<>>, user |-> 0, conn |-> 0,
            loc |-> <<>>, conns |-> <<>>, returned |-> {}, out |-> NoOut,
            call |-> NoCall, calls |-> <<>>, db0 |-> EmptyDb, last |-> NoLast]

Init == db = EmptyDb /\ req = [r \in Reqs |-> IdleReq]

\* one entry of a call's log: what was done (open, exec, commit, close), on
\* which connection, for an exec on which path and with which parameters,
\* and how it ended
Ev(e, c, path, p, res) == [e |-> e, c |-> c, path |-> path, p |-> p, res |-> res]

\* execute_stored_procedure(procedure_name, params, commit, fallback_sql):
\* the frame at entry, conn = None.  fallback_sql is None (fallback = FALSE)
\* or the statement sql; sql is also what the procedure does when it exists.
NewCall(procedure_name, params, commit, fb, sql) ==
  [ipc |-> "connect", procedure_name |-> procedure_name, params |-> params,
   commit |-> commit, fallback |-> fb, sql |-> sql,
   conn |-> 0, log |-> <<>>, cursor |-> <<>>, err |-> ""]

Running(q) == q.call.ipc \notin {"none", "returned", "raised"}

Logged(q, ev) == [q EXCEPT !.call.log = Append(@, ev)]

\* conn = get_db_connection() succeeding: a new open connection
Opened(q) ==
  LET c == Len(q.conns) + 1 IN
  Logged([q EXCEPT !.conns = Append(@, "open"), !.call.conn = c],
         Ev("open", c, "", <<>>, "ok"))

\* mutant: the except clause forgets to close the connection
CloseIfOpen_Skipped(q) == q

\* `if conn: conn.close()` of the except clauses
CloseIfOpen(q) ==
  IF q.call.conn = 0 THEN q
  ELSE Logged([q EXCEPT !.conns[q.call.conn] = "closed"],
              Ev("close", q.call.conn, "", <<>>, "ok"))

\* `raise` out of execute_stored_procedure
Raised(q, err) == [q EXCEPT !.call.ipc = "raised", !.call.err = err]

\* The except clauses for a failure that is not "procedure not found", and
\* for "not found" without fallback_sql: close the connection, raise.
HandleError(q, err) == Raised(CloseIfOpen(q), err)

\* An exception raised inside the `except pyodbc.ProgrammingError` clause
\* (the fallback retry) is caught by no clause of the same try statement.
RaisedInHandler(q, err) == Raised(q, err)

\* what EXEC <procedure_name> can do, by the catalog and the environment
ExecOutcomes(procedure_name) ==
  IF procedure_name = None THEN {"not_found"}
  ELSE {"ok", "not_found", "programming_error", "error"}

\* mutant: the commit flag is ignored on the fallback path
AfterExec_FallbackNeverCommits(commit, path) ==
  IF commit /\ path = "procedure" THEN "commit" ELSE "returned"

\* `if commit: conn.commit()` after a statement executed, else return
AfterExec(commit, path) ==
  IF commit THEN (IF path = "procedure" THEN "commit" ELSE "commit_fallback")
  ELSE "returned"

\* the parameters the fallback statement is executed with
FallbackParams(params) == params

\* The statement s of the call of q is committed on store d: an INSERT adds
\* its row under the next identity of the table, which is noted with the
\* statement in the history of q (the code itself never reads it).
Noted(q, s, d) ==
  IF q.calls = <<>> \/ s.k # "insert" THEN q
  ELSE [q EXCEPT !.calls[Len(q.calls)] = Put(@, "identity", Len(d[s.t]) + 1)]

\* get_db_connection(): a new open connection, or a connectivity failure
ESP_Connect(r) ==
  LET q == req[r] IN
  /\ q.call.ipc = "connect"
  /\ \E ok \in BOOLEAN :
       req' = [req EXCEPT ![r] =
         IF ok THEN [Opened(q) EXCEPT !.call.ipc = "exec"]
         ELSE HandleError(Logged(q, Ev("open", 0, "", <<>>, "error")), "connect")]
  /\ UNCHANGED db

\* cursor.execute("EXEC <procedure_name> ?, ..."), then `if commit`
ESP_ExecProcedure(r) ==
  LET q == req[r]
      f == q.call IN
  /\ f.ipc = "exec"
  /\ \E o \in ExecOutcomes(f.procedure_name) :
       req' = [req EXCEPT ![r] =
         LET q1 == Logged(q, Ev("exec", f.conn, "procedure", f.params, o)) IN
         CASE o = "ok" ->
                [q1 EXCEPT !.call.cursor =
                       Execute(ProcedureBody(f.procedure_name, f.sql), f.params, db).rows,
                     !.call.ipc = AfterExec(f.commit, "procedure")]
           [] o = "not_found" ->
                IF f.fallback THEN [q1 EXCEPT !.call.ipc = "close_failed"]
                ELSE HandleError(q1, "not_found_no_fallback")
           [] OTHER -> HandleError(q1, o)]
  /\ UNCHANGED db

\* conn.commit() on the procedure path
ESP_Commit(r) ==
  LET q == req[r]
      f == q.call IN
  /\ f.ipc = "commit"
  /\ \E ok \in BOOLEAN :
       IF ok
       THEN /\ db' = Execute(ProcedureBody(f.procedure_name, f.sql), f.params, db).db
            /\ req' = [req EXCEPT ![r] =
                 [Noted(Logged(q, Ev("commit", f.conn, "", <<>>, "ok")),
                        ProcedureBody(f.procedure_name, f.sql), db)
                    EXCEPT !.call.ipc = "returned"]]
       ELSE /\ req' = [req EXCEPT ![r] =
                 HandleError(Logged(q, Ev("commit", f.conn, "", <<>>, "error")), "commit")]
            /\ UNCHANGED db

\* fallback retry: `if conn: conn.close()`
ESP_CloseFailed(r) ==
  LET q == req[r] IN
  /\ q.call.ipc = "close_failed"
  /\ req' = [req EXCEPT ![r] = [CloseIfOpen(q) EXCEPT !.call.ipc = "reconnect"]]
  /\ UNCHANGED db

\* fallback retry: conn = get_db_connection()
ESP_Reconnect(r) ==
  LET q == req[r] IN
  /\ q.call.ipc = "reconnect"
  /\ \E ok \in BOOLEAN :
       req' = [req EXCEPT ![r] =
         IF ok THEN [Opened(q) EXCEPT !.call.ipc = "exec_fallback"]
         ELSE RaisedInHandler(Logged(q, Ev("open", 0, "", <<>>, "error")), "connect")]
  /\ UNCHANGED db

\* fallback retry: cursor.execute(fallback_sql, params), then `if commit`
ESP_ExecFallback(r) ==
  LET q == req[r]
      f == q.call
      p == FallbackParams(f.params) IN
  /\ f.ipc = "exec_fallback"
  /\ \E o \in {"ok", "error"} :
       req' = [req EXCEPT ![r] =
         LET q1 == Logged(q, Ev("exec", f.conn, "fallback", p, o)) IN
         IF o = "ok"
         THEN [q1 EXCEPT !.call.cursor = Execute(f.sql, p, db).rows,
                         !.call.ipc = AfterExec(f.commit, "fallback")]
         ELSE RaisedInHandler(q1, "error")]
  /\ UNCHANGED db

\* fallback retry: conn.commit()
ESP_CommitFallback(r) ==
  LET q == req[r]
      f == q.call IN
  /\ f.ipc = "commit_fallback"
  /\ \E ok \in BOOLEAN :
       IF ok
       THEN /\ db' = Execute(f.sql, FallbackParams(f.params), db).db
            /\ req' = [req EXCEPT ![r] =
                 [Noted(Logged(q, Ev("commit", f.conn, "", <<>>, "ok")), f.sql, db)
                    EXCEPT !.call.ipc = "returned"]]
       ELSE /\ req' = [req EXCEPT ![r] =
                 RaisedInHandler(Logged(q, Ev("commit", f.conn, "", <<>>, "error")), "commit")]
            /\ UNCHANGED db

execute_stored_procedure(r) ==
  \/ ESP_Connect(r)
  \/ ESP_ExecProcedure(r)
  \/ ESP_Commit(r)
  \/ ESP_CloseFailed(r)
  \/ ESP_Reconnect(r)
  \/ ESP_ExecFallback(r)
  \/ ESP_CommitFallback(r)

\* ------------------------------------------------------------------ a direct caller
\* The arguments a direct call of execute_stored_procedure is made with:
\* statements of the Units table with the parameters their call sites pass.
InvokeStatements ==
  { [sql |-> Stmt("insert", "Units"), params |-> <<"a", "d", "x", 1>>],
    [sql |-> Stmt("deactivate", "Units"), params |-> <<1, 1>>],
    [sql |-> Stmt("select_by_id", "Units"), params |-> <<1>>],
    [sql |-> Stmt("count_active", "Units"), params |-> <<>>] }

AllDone == \A r \in Reqs : req[r].pc = "done"

\* A caller invokes execute_stored_procedure(procedure_name, params, commit,
\* fallback_sql) with any combination of arguments.
CallInvoke(r) ==
  /\ AllDone
  /\ \E a \in InvokeStatements, procedure_name \in {None, "sp_Unit"},
        commit \in BOOLEAN, fb \in BOOLEAN :
       /\ a.sql.k = "insert" => Len(db[a.sql.t]) < MaxRows
       /\ req' = [req EXCEPT ![r] =
            [IdleReq EXCEPT !.op = "invoke", !.pc = "called",
                            !.call = NewCall(procedure_name, a.params, commit, fb, a.sql)]]
  /\ UNCHANGED db

\* The call has returned (cursor, conn) or raised.
EndInvoke(r) ==
  LET q == req[r] IN
  /\ q.op = "invoke" /\ q.pc = "called"
  /\ q.call.ipc \in {"returned", "raised"}
  /\ req' = [req EXCEPT ![r].pc = "done",
                        ![r].returned = IF q.call.ipc = "returned" THEN {q.call.conn} ELSE {},
                        ![r].out = [kind |-> IF q.call.ipc = "returned" THEN "return" ELSE "raise",
                                    val |-> q.call.cursor, msg |-> q.call.err]]
  /\ UNCHANGED db

NextInvoke == \E r \in {1} : CallInvoke(r) \/ EndInvoke(r) \/ execute_stored_procedure(r)

SpecInvoke == Init /\ [][NextInvoke]_vars

\* ------------------------------------------------------------------ services
\* A service function runs from one execute_stored_procedure call to the
\* next; each of its steps below is the code between two calls.

\* The tables that belong together: a parent table with its child table,
\* and the shifts with the workstations that reference them.
Families ==
  { {"Units"}, {"MasterShifts", "Workstations", "WorkstationShifts"},
    {"Processes", "ProcessTechnicals"}, {"Routes", "RouteProcess"}, {"Products"} }

FamilyOf(t) == CHOOSE F \in Families : t \in F

\* rows of the parent tables of the family of t
RECURSIVE ParentRows(_)
ParentRows(S) ==
  IF S = {} THEN 0
  ELSE LET t == CHOOSE u \in S : TRUE IN
       (IF t \in {"WorkstationShifts", "ProcessTechnicals", "RouteProcess"} THEN 0
        ELSE Len(db[t])) + ParentRows(S \ {t})

\* the table each service function works on
TableOf ==
  [create_unit |-> "Units", get_units |-> "Units", search_units |-> "Units",
   get_unit_by_id |-> "Units", update_unit |-> "Units", delete_unit |-> "Units",
   create_shift |-> "MasterShifts", get_shifts |-> "MasterShifts",
   search_shifts |-> "MasterShifts", get_shift_by_id |-> "MasterShifts",
   update_shift |-> "MasterShifts", delete_shift |-> "MasterShifts",
   create_workstation |-> "Workstations", get_workstations |-> "Workstations",
   search_workstations |-> "Workstations", update_workstation |-> "Workstations",
   delete_workstation |-> "Workstations",
   create_process |-> "Processes", get_processes |-> "Processes",
   search_processes |-> "Processes", get_process_by_id |-> "Processes",
   update_process |-> "Processes", delete_process |-> "Processes",
   create_route |-> "Routes", get_routes |-> "Routes", search_routes |-> "Routes",
   get_route_by_id |-> "Routes", update_route |-> "Routes", delete_route |-> "Routes",
   create_product |-> "Products", get_products |-> "Products",
   search_products |-> "Products", get_product_by_id |-> "Products",
   update_product |-> "Products", delete_product |-> "Products"]

\* A run works on the tables of one family: request r, free, starts a
\* service function on table t when the other families are empty and no
\* request in progress works on another family.  How many requests are in
\* progress at a time is the server's choice (see Next and NextThreaded).
CanStart(r, t) ==
  /\ req[r].op = "idle"
  /\ \A x \in Reqs :
       IF req[x].op = "idle" THEN TRUE ELSE TableOf[req[x].op] \in FamilyOf(t)
  /\ \A u \in Tables \ FamilyOf(t) : db[u] = <<>>

\* a create is started while the family of t holds fewer than MaxRows parents
Room(t) == ParentRows(FamilyOf(t)) < MaxRows

Enter(op, data, user) ==
  [IdleReq EXCEPT !.op = op, !.pc = "start", !.data = data, !.user = user, !.db0 = db]

\* execute_stored_procedure(procedure_name, params, commit, fallback_sql=sql)
Call(q, pc, procedure_name, params, commit, sql) ==
  [q EXCEPT !.pc = pc, !.call = NewCall(procedure_name, params, commit, TRUE, sql),
            !.calls = Append(@, sql)]

At(r, op, pc) ==
  /\ req[r].op = op /\ req[r].pc = pc
  /\ req[r].call.ipc \in {"returned", "raised"}

Rows(q) == q.call.cursor

\* `cursor, conn = execute_stored_procedure(...)`: the returned connection
\* replaces the one `conn` named
Bind(q) == [q EXCEPT !.conn = q.call.conn, !.returned = @ \cup {q.call.conn}]

\* the returned connection is dropped or bound to `_`
Drop(q) == [q EXCEPT !.returned = @ \cup {q.call.conn}]

\* the returned connection is bound to another local (check_conn, tech_conn)
BindOther(q) ==
  [q EXCEPT !.loc = Put(@, "other", q.call.conn), !.returned = @ \cup {q.call.conn}]

\* other.close()
CloseOther(q) == [q EXCEPT !.conns[q.loc.other] = "closed"]

Return(val) == [kind |-> "return", val |-> val, msg |-> ""]
Raise(msg) == [kind |-> "raise", val |-> <<>>, msg |-> msg]

\* `finally: if conn: conn.close()`, then the function is left with out
Finally(q, out) ==
  [q EXCEPT !.conns = IF q.conn = 0 THEN @ ELSE [@ EXCEPT ![q.conn] = "closed"],
            !.out = out, !.pc = "done"]

\* the call raised: the exception leaves the service function
Failed(q) == q.call.ipc = "raised"
Propagate(q) == Finally(q, Raise(q.call.err))

Step(r, q) == req' = [req EXCEPT ![r] = q] /\ UNCHANGED db

\* request r is free, or is inside the service function op
Serving(r, op) == req[r].op \in {"idle", op}

\* what the client keeps of an answered request: the workstation whose
\* delete returned, or the body it sent to a create and the id of the record
\* the create returned
Answered(q) ==
  IF q.out.kind # "return" THEN NoLast
  ELSE IF q.op = "delete_workstation"
  THEN [op |-> q.op, id |-> q.data.id, db0 |-> q.db0]
  ELSE IF q.op \in {"create_unit", "create_shift", "create_process", "create_route",
                    "create_product"} /\ Has(q.out.val, "id")
  THEN [op |-> q.op, id |-> q.out.val.id, data |-> q.data]
  ELSE NoLast

\* The service function has returned or raised: the controller answers and
\* the request is over.
Respond(r) ==
  /\ req[r].pc = "done" /\ req[r].op \notin {"idle", "invoke"}
  /\ Step(r, [IdleReq EXCEPT !.last = Answered(req[r])])

\* ------------------------------------------------------------------ units
\* request bodies: a unit, and the same unit with blanks around its name
UnitPayloads ==
  { [unitName |-> "a", unitSymbol |-> "x", description |-> "d"],
    [unitName |-> " a", unitSymbol |-> "x", description |-> "d"] }

\* an update body that leaves description out
UnitUpdates == { [unitName |-> "b", unitSymbol |-> "x"] }


create_unit(r) ==
  LET q == req[r] IN
  \/ /\ CanStart(r, "Units") /\ Room("Units")
     /\ \E data \in UnitPayloads, user \in Users :
          Step(r, Call(Enter("create_unit", data, user), "check", None,
                       <<Strip(data.unitName), Strip(data.unitSymbol)>>, FALSE,
                       Stmt("select_duplicate", "Units")))
  \/ /\ At(r, "create_unit", "check")
     /\ Step(r, IF Failed(q) THEN Propagate(q)
                ELSE LET q1 == Bind(q) IN
                     IF Rows(q) # <<>>
                     THEN Finally(q1, Return([status |-> "error"]))
                     ELSE Call(q1, "insert", "sp_Unit_Create",
                               <<Strip(q.data.unitName), Get(q.data, "description"),
                                 Strip(q.data.unitSymbol), q.user>>, TRUE,
                               Stmt("insert", "Units")))
  \/ /\ At(r, "create_unit", "insert")
     /\ Step(r, IF Failed(q) THEN Propagate(q)
                ELSE Call(Drop(q), "fetch", None, <<q.user>>, FALSE,
                          Stmt("select_last_created", "Units")))
  \/ /\ At(r, "create_unit", "fetch")
     /\ Step(r, IF Failed(q) THEN Propagate(q)
                ELSE IF Rows(q) = <<>> THEN Finally(Bind(q), Raise("TypeError"))
                ELSE Finally(Bind(q), Return(Rows(q)[1])))

\* the list and search statements carry their interpolated clauses
PageStmt(k, t, sort_by, sort_order, offset, per_page) ==
  [k |-> k, t |-> t, sort_by |-> sort_by, sort_order |-> sort_order,
   offset |-> offset, per_page |-> per_page]

SearchTerms == {"", "a"}

Upper(s) == CASE s = "asc" -> "ASC" [] s = "desc" -> "DESC" [] OTHER -> s

SortColumn(t, sort_by) == IF sort_by \in AllowedColumns(t) THEN sort_by ELSE DefaultColumn(t)
SortOrder(sort_order) == IF Upper(sort_order) \in {"ASC", "DESC"} THEN sort_order ELSE "ASC"

ListInputs == {[page |-> 1, per_page |-> 10, sort_by |-> "", sort_order |-> "ASC"]}

\* total_pages = (total + per_page - 1) // per_page
TotalPages(total, per_page) == (total + per_page - 1) \div per_page

ListResult(items, total, a) ==
  [items |-> items, total |-> total, page |-> a.page, per_page |-> a.per_page,
   total_pages |-> TotalPages(total, a.per_page)]

\* the list and search functions differ by entity only in table, procedure
\* and result; their common steps are written once
\* (`sort_order.upper()` comes first: None has no such method)
ListCount(op, t, a) ==
  IF a.sort_order = None THEN Finally(Enter(op, a, 0), Raise("AttributeError"))
  ELSE Call(Enter(op, a, 0), "count", None, <<>>, FALSE, Stmt("count_active", t))

ListPage(q, t, procedure_name) ==
  Call([Bind(q) EXCEPT !.loc = [total |-> Rows(q)[1].total]],
       "page", procedure_name, <<>>, FALSE,
       PageStmt("page_active", t, SortColumn(t, q.data.sort_by), SortOrder(q.data.sort_order),
                (q.data.page - 1) * q.data.per_page, q.data.per_page))

SearchCount(op, t, a, search, likes) ==
  IF a.sort_order = None
  THEN Finally(Enter(op, Put(a, "search", search), 0), Raise("AttributeError"))
  ELSE Call(Enter(op, Put(a, "search", search), 0), "count", None, likes, FALSE,
            Stmt("count_search", t))

SearchPage(q, t, procedure_name, likes) ==
  Call([Bind(q) EXCEPT !.loc = [total |-> Rows(q)[1].total]],
       "page", procedure_name, likes, FALSE,
       PageStmt("page_search", t, SortColumn(t, q.data.sort_by), SortOrder(q.data.sort_order),
                (q.data.page - 1) * q.data.per_page, q.data.per_page))

get_units(r) ==
  LET q == req[r] IN
  \/ /\ CanStart(r, "Units")
     /\ \E a \in ListInputs : Step(r, ListCount("get_units", "Units", a))
  \/ /\ At(r, "get_units", "count")
     /\ Step(r, IF Failed(q) THEN Propagate(q) ELSE ListPage(q, "Units", "sp_Unit_GetAll"))
  \/ /\ At(r, "get_units", "page")
     /\ Step(r, IF Failed(q) THEN Propagate(q)
                ELSE Finally(Bind(q), Return(ListResult(Rows(q), q.loc.total, q.data))))

search_units(r) ==
  LET q == req[r]
      like == q.data.search IN
  \/ /\ CanStart(r, "Units")
     /\ \E a \in ListInputs, search \in SearchTerms :
          Step(r, IF search = "" THEN ListCount("get_units", "Units", a)
                  ELSE SearchCount("search_units", "Units", a, search,
                                   <<search, search, search>>))
  \/ /\ At(r, "search_units", "count")
     /\ Step(r, IF Failed(q) THEN Propagate(q)
                ELSE SearchPage(q, "Units", None, <<like, like, like>>))
  \/ /\ At(r, "search_units", "page")
     /\ Step(r, IF Failed(q) THEN Propagate(q)
                ELSE Finally(Bind(q), Return(ListResult(Rows(q), q.loc.total, q.data))))

\* mutant: the isActive check of update and delete is left out
Precheck_ExistenceOnly(rows, not_found, inactive) == IF rows = <<>> THEN not_found ELSE ""

\* `if not row: raise ...; if not isActive: raise ...` of update and delete:
\* the message to raise, "" to go on
Precheck(rows, not_found, inactive) ==
  IF rows = <<>> THEN not_found
  ELSE IF rows[1].isActive = 0 THEN inactive
  ELSE ""

\* the result of a by-id lookup: the row as a dictionary, or None
NoneValue == [none |-> TRUE]
RowOrNone(rows) == IF rows = <<>> THEN NoneValue ELSE rows[1]

\* `return dict(...) if row else {"id": id}`
RowOrId(rows, id) == IF rows = <<>> THEN [id |-> id] ELSE rows[1]

get_unit_by_id(r) ==
  LET q == req[r] IN
  \/ /\ CanStart(r, "Units")
     /\ \E unit_id \in Ids :
          Step(r, Call([Enter("get_unit_by_id", [id |-> unit_id], 0) EXCEPT !.last = req[r].last], "get", "sp_Unit_GetById",
                       <<unit_id>>, FALSE, Stmt("select_active_by_id", "Units")))
  \/ /\ At(r, "get_unit_by_id", "get")
     /\ Step(r, IF Failed(q) THEN Propagate(q)
                ELSE Finally(Bind(q), Return(RowOrNone(Rows(q)))))

update_unit(r) ==
  LET q == req[r] IN
  \/ /\ CanStart(r, "Units")
     /\ \E d \in UnitUpdates, id \in Ids, user \in Users :
          Step(r, Call(Enter("update_unit", Put(d, "id", id), user), "check", None,
                       <<id>>, FALSE, Stmt("select_by_id", "Units")))
  \/ /\ At(r, "update_unit", "check")
     /\ Step(r, IF Failed(q) THEN Propagate(q)
                ELSE LET q1 == Bind(q)
                         error == Precheck(Rows(q), "Unit not found", "Cannot update inactive unit") IN
                     IF error # "" THEN Finally(q1, Raise(error))
                     ELSE Call(q1, "update", "sp_Unit_Update",
                               <<q.data.unitName, Get(q.data, "description"),
                                 Get(q.data, "unitSymbol"), q.user, q.data.id>>, TRUE,
                               Stmt("update", "Units")))
  \/ /\ At(r, "update_unit", "update")
     /\ Step(r, IF Failed(q) THEN Propagate(q)
                ELSE Call(Bind(q), "fetch", None, <<q.data.id>>, FALSE,
                          Stmt("select_by_id", "Units")))
  \/ /\ At(r, "update_unit", "fetch")
     /\ Step(r, IF Failed(q) THEN Propagate(q)
                ELSE Finally(Bind(q), Return(RowOrId(Rows(q), q.data.id))))

delete_unit(r) ==
  LET q == req[r] IN
  \/ /\ CanStart(r, "Units")
     /\ \E unit_id \in Ids, user \in Users :
          Step(r, Call(Enter("delete_unit", [id |-> unit_id], user), "check", None,
                       <<unit_id>>, FALSE, Stmt("select_by_id", "Units")))
  \/ /\ At(r, "delete_unit", "check")
     /\ Step(r, IF Failed(q) THEN Propagate(q)
                ELSE LET q1 == Bind(q)
                         error == Precheck(Rows(q), "Unit not found", "Unit already deleted") IN
                     IF error # "" THEN Finally(q1, Raise(error))
                     ELSE Call(q1, "delete", "sp_Unit_Delete", <<q.user, q.data.id>>, TRUE,
                               Stmt("deactivate", "Units")))
  \/ /\ At(r, "delete_unit", "delete")
     /\ Step(r, IF Failed(q) THEN Propagate(q)
                ELSE Call(Bind(q), "fetch", None, <<q.data.id>>, FALSE,
                          Stmt("select_by_id", "Units")))
  \/ /\ At(r, "delete_unit", "fetch")
     /\ Step(r, IF Failed(q) THEN Propagate(q)
                ELSE Finally(Bind(q), Return(RowOrId(Rows(q), q.data.id))))

UnitService(r) ==
  \/ Serving(r, "create_unit") /\ create_unit(r)
  \/ Serving(r, "get_units") /\ get_units(r)
  \/ Serving(r, "search_units") /\ search_units(r)
  \/ Serving(r, "get_unit_by_id") /\ get_unit_by_id(r)
  \/ Serving(r, "update_unit") /\ update_unit(r)
  \/ Serving(r, "delete_unit") /\ delete_unit(r)

\* ------------------------------------------------------------------ shifts
ShiftPayloads ==
  { [name |-> "a", startTime |-> "t1", endTime |-> "t2", duration |-> 8, colorCode |-> "x"] }

\* an update body that leaves duration and colorCode out
ShiftUpdates == { [name |-> "b", startTime |-> "t1", endTime |-> "t2"] }

create_shift(r) ==
  LET q == req[r] IN
  \/ /\ CanStart(r, "MasterShifts") /\ Room("MasterShifts")
     /\ \E data \in ShiftPayloads, user \in Users :
          Step(r, Call(Enter("create_shift", data, user), "check", None,
                       <<data.name, Get(data, "startTime"), Get(data, "endTime")>>, FALSE,
                       Stmt("select_duplicate", "MasterShifts")))
  \/ /\ At(r, "create_shift", "check")
     /\ Step(r, IF Failed(q) THEN Propagate(q)
                ELSE LET q1 == CloseOther(BindOther(q)) IN
                     IF Rows(q) # <<>> THEN Finally(q1, Raise("Shift already exists"))
                     ELSE Call(q1, "insert", "sp_Shift_Create",
                               <<q.data.name, Get(q.data, "startTime"), Get(q.data, "endTime"),
                                 Get(q.data, "duration"), Get(q.data, "colorCode"), q.user>>,
                               TRUE, Stmt("insert", "MasterShifts")))
  \/ /\ At(r, "create_shift", "insert")
     /\ Step(r, IF Failed(q) THEN Propagate(q)
                ELSE Call(Bind(q), "fetch", None, <<q.user>>, FALSE,
                          Stmt("select_last_created", "MasterShifts")))
  \/ /\ At(r, "create_shift", "fetch")
     /\ Step(r, IF Failed(q) THEN Propagate(q)
                ELSE Finally(Bind(q), Return(IF Rows(q) = <<>> THEN [name |-> q.data.name]
                                             ELSE Rows(q)[1])))

get_shifts(r) ==
  LET q == req[r] IN
  \/ /\ CanStart(r, "MasterShifts")
     /\ \E a \in ListInputs : Step(r, ListCount("get_shifts", "MasterShifts", a))
  \/ /\ At(r, "get_shifts", "count")
     /\ Step(r, IF Failed(q) THEN Propagate(q)
                ELSE ListPage(q, "MasterShifts", "sp_Shift_GetAll"))
  \/ /\ At(r, "get_shifts", "page")
     /\ Step(r, IF Failed(q) THEN Propagate(q)
                ELSE Finally(Bind(q), Return(ListResult(Rows(q), q.loc.total, q.data))))

search_shifts(r) ==
  LET q == req[r]
      like == q.data.search IN
  \/ /\ CanStart(r, "MasterShifts")
     /\ \E a \in ListInputs, search \in SearchTerms :
          Step(r, IF search = "" THEN ListCount("get_shifts", "MasterShifts", a)
                  ELSE SearchCount("search_shifts", "MasterShifts", a, search,
                                   <<search, search>>))
  \/ /\ At(r, "search_shifts", "count")
     /\ Step(r, IF Failed(q) THEN Propagate(q)
                ELSE SearchPage(q, "MasterShifts", None, <<like, like>>))
  \/ /\ At(r, "search_shifts", "page")
     /\ Step(r, IF Failed(q) THEN Propagate(q)
                ELSE Finally(Bind(q), Return(ListResult(Rows(q), q.loc.total, q.data))))

get_shift_by_id(r) ==
  LET q == req[r] IN
  \/ /\ CanStart(r, "MasterShifts")
     /\ \E shift_id \in Ids :
          Step(r, Call([Enter("get_shift_by_id", [id |-> shift_id], 0) EXCEPT !.last = req[r].last], "get",
                       "sp_Shift_GetById", <<shift_id>>, FALSE,
                       Stmt("select_active_by_id", "MasterShifts")))
  \/ /\ At(r, "get_shift_by_id", "get")
     /\ Step(r, IF Failed(q) THEN Propagate(q)
                ELSE Finally(Bind(q), Return(RowOrNone(Rows(q)))))

update_shift(r) ==
  LET q == req[r] IN
  \/ /\ CanStart(r, "MasterShifts")
     /\ \E d \in ShiftUpdates, id \in Ids, user \in Users :
          Step(r, Call(Enter("update_shift", Put(d, "id", id), user), "check", None,
                       <<id>>, FALSE, Stmt("select_by_id", "MasterShifts")))
  \/ /\ At(r, "update_shift", "check")
     /\ Step(r, IF Failed(q) THEN Propagate(q)
                ELSE LET q1 == Bind(q)
                         error == Precheck(Rows(q), "Shift not found", "Cannot update inactive shift") IN
                     IF error # "" THEN Finally(q1, Raise(error))
                     ELSE Call(q1, "update", "sp_Shift_Update",
                               <<q.data.name, Get(q.data, "startTime"), Get(q.data, "endTime"),
                                 Get(q.data, "duration"), Get(q.data, "colorCode"), q.user,
                                 q.data.id>>, TRUE, Stmt("update", "MasterShifts")))
  \/ /\ At(r, "update_shift", "update")
     /\ Step(r, IF Failed(q) THEN Propagate(q)
                ELSE Call(Bind(q), "fetch", None, <<q.data.id>>, FALSE,
                          Stmt("select_by_id", "MasterShifts")))
  \/ /\ At(r, "update_shift", "fetch")
     /\ Step(r, IF Failed(q) THEN Propagate(q)
                ELSE Finally(Bind(q), Return(RowOrId(Rows(q), q.data.id))))

delete_shift(r) ==
  LET q == req[r] IN
  \/ /\ CanStart(r, "MasterShifts")
     /\ \E shift_id \in Ids, user \in Users :
          Step(r, Call(Enter("delete_shift", [id |-> shift_id], user), "check", None,
                       <<shift_id>>, FALSE, Stmt("select_by_id", "MasterShifts")))
  \/ /\ At(r, "delete_shift", "check")
     /\ Step(r, IF Failed(q) THEN Propagate(q)
                ELSE LET q1 == Bind(q)
                         error == Precheck(Rows(q), "Shift not found", "Shift already deleted") IN
                     IF error # "" THEN Finally(q1, Raise(error))
                     ELSE Call(q1, "delete", "sp_Shift_Delete", <<q.user, q.data.id>>, TRUE,
                               Stmt("deactivate", "MasterShifts")))
  \/ /\ At(r, "delete_shift", "delete")
     /\ Step(r, IF Failed(q) THEN Propagate(q)
                ELSE Call(Bind(q), "fetch", None, <<q.data.id>>, FALSE,
                          Stmt("select_by_id", "MasterShifts")))
  \/ /\ At(r, "delete_shift", "fetch")
     /\ Step(r, IF Failed(q) THEN Propagate(q)
                ELSE Finally(Bind(q), Return(RowOrId(Rows(q), q.data.id))))

ShiftService(r) ==
  \/ Serving(r, "create_shift") /\ create_shift(r)
  \/ Serving(r, "get_shifts") /\ get_shifts(r)
  \/ Serving(r, "search_shifts") /\ search_shifts(r)
  \/ Serving(r, "get_shift_by_id") /\ get_shift_by_id(r)
  \/ Serving(r, "update_shift") /\ update_shift(r)
  \/ Serving(r, "delete_shift") /\ delete_shift(r)

\* ------------------------------------------------------------------ workstations
WorkstationPayloads ==
  { [workstationName |-> "a", description |-> "d"],
    [workstationName |-> "a", description |-> "d",
     shifts |-> <<[shiftId |-> 1, startDate |-> "t1", endDate |-> "t2"]>>] }

\* update bodies: one that leaves description out, one without the name
WorkstationUpdates == { [workstationName |-> "b"], [description |-> "d"] }

\* the loop over data["shifts"]: the next shift is validated, or the
\* workstation is returned with the assignments made
NextShift(q) ==
  IF ~Has(q.data, "shifts") \/ q.loc.i > Len(q.data.shifts)
  THEN Finally(q, Return(Put(q.loc.workstation, "shifts", q.loc.shifts_list)))
  ELSE Call(q, "check_shift", None, <<q.data.shifts[q.loc.i].shiftId>>, FALSE,
            Stmt("select_active_by_id", "MasterShifts"))

create_workstation(r) ==
  LET q == req[r]
      shift == q.data.shifts[q.loc.i]
      workstation_id == q.loc.workstation.id IN
  \/ /\ CanStart(r, "Workstations") /\ Room("Workstations")
     /\ \E data \in WorkstationPayloads, user \in Users :
          Step(r, Call(Enter("create_workstation", data, user), "insert",
                       "sp_Workstation_Create",
                       <<data.workstationName, Get(data, "description"), user, user>>, TRUE,
                       Stmt("insert", "Workstations")))
  \/ /\ At(r, "create_workstation", "insert")
     /\ Step(r, IF Failed(q) THEN Propagate(q)
                ELSE Call(Bind(q), "fetch", None, <<q.user>>, FALSE,
                          Stmt("select_last_created", "Workstations")))
  \/ /\ At(r, "create_workstation", "fetch")
     /\ Step(r, IF Failed(q) THEN Propagate(q)
                ELSE IF Rows(q) = <<>>
                THEN Finally(Bind(q), Return([workstationName |-> q.data.workstationName]))
                ELSE NextShift([Bind(q) EXCEPT !.loc = [workstation |-> Rows(q)[1],
                                                        shifts_list |-> <<>>, i |-> 1]]))
  \/ /\ At(r, "create_workstation", "check_shift")
     /\ Step(r, IF Failed(q) THEN Propagate(q)
                ELSE IF Rows(q) = <<>> THEN Finally(Drop(q), Raise("Invalid shiftId"))
                ELSE Call(Drop(q), "insert_shift", "sp_WorkstationShift_Create",
                          <<workstation_id, shift.shiftId, shift.startDate, shift.endDate>>,
                          TRUE, Stmt("insert", "WorkstationShifts")))
  \/ /\ At(r, "create_workstation", "insert_shift")
     /\ Step(r, IF Failed(q) THEN Propagate(q)
                ELSE Call(Drop(q), "fetch_shift", None, <<workstation_id, shift.shiftId>>,
                          FALSE, Stmt("select_assignment", "WorkstationShifts")))
  \/ /\ At(r, "create_workstation", "fetch_shift")
     /\ Step(r, IF Failed(q) THEN Propagate(q)
                ELSE NextShift([Drop(q) EXCEPT
                       !.loc.shifts_list = IF Rows(q) = <<>> THEN @ ELSE Append(@, Rows(q)[1]),
                       !.loc.i = @ + 1]))

\* the loop over the listed workstations: the shifts of the next one are
\* fetched, or the page is returned
NextWorkstation(q) ==
  IF q.loc.i > Len(q.loc.rows)
  THEN Finally(q, Return(ListResult(q.loc.rows, q.loc.total, q.data)))
  ELSE Call(q, "shifts", None, <<q.loc.rows[q.loc.i].id>>, FALSE,
            Stmt("select_shifts", "WorkstationShifts"))

\* the rows of the page are kept, then completed one by one
PageRows(q) == [Bind(q) EXCEPT !.loc = [total |-> q.loc.total, rows |-> Rows(q), i |-> 1]]

\* row[field] = the rows the child call returned, for the row the loop is at
Enriched(q, field) ==
  [q EXCEPT !.loc.rows[q.loc.i] = Put(@, field, Rows(q)), !.loc.i = @ + 1]

get_workstations(r) ==
  LET q == req[r] IN
  \/ /\ CanStart(r, "Workstations")
     /\ \E a \in ListInputs : Step(r, ListCount("get_workstations", "Workstations", a))
  \/ /\ At(r, "get_workstations", "count")
     /\ Step(r, IF Failed(q) THEN Propagate(q)
                ELSE ListPage(q, "Workstations", "sp_Workstation_GetAll"))
  \/ /\ At(r, "get_workstations", "page")
     /\ Step(r, IF Failed(q) THEN Propagate(q) ELSE NextWorkstation(PageRows(q)))
  \/ /\ At(r, "get_workstations", "shifts")
     /\ Step(r, IF Failed(q) THEN Propagate(q)
                ELSE NextWorkstation(Enriched(Drop(q), "shifts")))

search_workstations(r) ==
  LET q == req[r]
      like == q.data.search IN
  \/ /\ CanStart(r, "Workstations")
     /\ \E a \in ListInputs, search \in SearchTerms :
          Step(r, IF search = "" THEN ListCount("get_workstations", "Workstations", a)
                  ELSE SearchCount("search_workstations", "Workstations", a, search,
                                   <<search, search>>))
  \/ /\ At(r, "search_workstations", "count")
     /\ Step(r, IF Failed(q) THEN Propagate(q)
                ELSE SearchPage(q, "Workstations", "sp_Workstation_GetAll", <<like, like>>))
  \/ /\ At(r, "search_workstations", "page")
     /\ Step(r, IF Failed(q) THEN Propagate(q) ELSE NextWorkstation(PageRows(q)))
  \/ /\ At(r, "search_workstations", "shifts")
     /\ Step(r, IF Failed(q) THEN Propagate(q)
                ELSE NextWorkstation(Enriched(Drop(q), "shifts")))

update_workstation(r) ==
  LET q == req[r] IN
  \/ /\ CanStart(r, "Workstations")
     /\ \E d \in WorkstationUpdates, id \in Ids \cup {0}, user \in Users :
          LET data == Put(d, "id", id)
              q0 == Enter("update_workstation", data, user) IN
          Step(r, IF id = 0 THEN [q0 EXCEPT !.pc = "done", !.out = Raise("id is required")]
                  ELSE IF ~Has(data, "workstationName")
                  THEN [q0 EXCEPT !.pc = "done", !.out = Raise("workstationName is required")]
                  ELSE Call(q0, "check", None, <<id>>, FALSE,
                            Stmt("select_by_id", "Workstations")))
  \/ /\ At(r, "update_workstation", "check")
     /\ Step(r, IF Failed(q) THEN Propagate(q)
                ELSE LET q1 == Bind(q)
                         error == Precheck(Rows(q), "Workstation not found", "Cannot update inactive workstation") IN
                     IF error # "" THEN Finally(q1, Raise(error))
                     ELSE Call(q1, "update", "sp_Workstation_Update",
                               <<q.data.workstationName, Get(q.data, "description"), q.user,
                                 q.data.id>>, TRUE, Stmt("update", "Workstations")))
  \/ /\ At(r, "update_workstation", "update")
     /\ Step(r, IF Failed(q) THEN Propagate(q)
                ELSE Call(Drop(q), "fetch", None, <<q.data.id>>, FALSE,
                          Stmt("select_by_id", "Workstations")))
  \/ /\ At(r, "update_workstation", "fetch")
     /\ Step(r, IF Failed(q) THEN Propagate(q)
                ELSE IF Rows(q) = <<>> THEN Finally(Bind(q), Raise("Workstation not found"))
                ELSE Finally(Bind(q), Return(Rows(q)[1])))

delete_workstation(r) ==
  LET q == req[r] IN
  \/ /\ CanStart(r, "Workstations")
     /\ \E workstation_id \in Ids, user \in Users :
          Step(r, Call([Enter("delete_workstation", [id |-> workstation_id], user)
                          EXCEPT !.last = req[r].last], "toggle",
                       "sp_Workstation_Delete", <<user, workstation_id>>, TRUE,
                       Stmt("toggle", "Workstations")))
  \/ /\ At(r, "delete_workstation", "toggle")
     /\ Step(r, IF Failed(q) THEN Propagate(q)
                ELSE Call(Bind(q), "fetch", None, <<q.data.id>>, FALSE,
                          Stmt("select_by_id", "Workstations")))
  \/ /\ At(r, "delete_workstation", "fetch")
     /\ Step(r, IF Failed(q) THEN Propagate(q)
                ELSE Finally(Bind(q), Return(RowOrId(Rows(q), q.data.id))))

WorkstationService(r) ==
  \/ Serving(r, "create_workstation") /\ create_workstation(r)
  \/ Serving(r, "get_workstations") /\ get_workstations(r)
  \/ Serving(r, "search_workstations") /\ search_workstations(r)
  \/ Serving(r, "update_workstation") /\ update_workstation(r)
  \/ Serving(r, "delete_workstation") /\ delete_workstation(r)

\* ------------------------------------------------------------------ processes
ProcessPayloads ==
  { [processName |-> "a", description |-> "d", workstationId |-> 1, processTime |-> 5,
     setupTime |-> 2],
    [processName |-> "a", description |-> "d", workstationId |-> 1, processTime |-> 5,
     setupTime |-> 2, technicalValues |-> <<[name |-> "a", value |-> "x", unitId |-> 1]>>] }

\* an update body that carries the name only
ProcessUpdates == { [processName |-> "b"] }

\* the loop over data["technicalValues"]
NextTechnical(q) ==
  IF ~Has(q.data, "technicalValues") \/ q.loc.i > Len(q.data.technicalValues)
  THEN Finally(q, Return(Put(q.loc.process, "technicalValues", q.loc.technical_values)))
  ELSE LET tech_val == q.data.technicalValues[q.loc.i] IN
       Call(q, "insert_technical", "sp_ProcessTechnical_Create",
            <<q.loc.process.id, Get(tech_val, "unitId"), Get(tech_val, "name"),
              Get(tech_val, "value"), q.user, q.user>>, TRUE,
            Stmt("insert", "ProcessTechnicals"))

create_process(r) ==
  LET q == req[r] IN
  \/ /\ CanStart(r, "Processes") /\ Room("Processes")
     /\ \E data \in ProcessPayloads, user \in Users :
          Step(r, Call(Enter("create_process", data, user), "insert", "sp_Process_Create",
                       <<data.processName, Get(data, "description"), data.workstationId,
                         data.processTime, data.setupTime, user, user>>, TRUE,
                       Stmt("insert", "Processes")))
  \/ /\ At(r, "create_process", "insert")
     /\ Step(r, IF Failed(q) THEN Propagate(q)
                ELSE Call(Bind(q), "fetch", None, <<q.user>>, FALSE,
                          Stmt("select_last_created", "Processes")))
  \/ /\ At(r, "create_process", "fetch")
     /\ Step(r, IF Failed(q) THEN Propagate(q)
                ELSE IF Rows(q) = <<>>
                THEN Finally(Bind(q), Raise("Failed to retrieve created process"))
                ELSE NextTechnical([Bind(q) EXCEPT !.loc = [process |-> Rows(q)[1],
                                                            technical_values |-> <<>>,
                                                            i |-> 1]]))
  \/ /\ At(r, "create_process", "insert_technical")
     /\ Step(r, IF Failed(q) THEN Propagate(q)
                ELSE Call(BindOther(q), "fetch_technical", None,
                          <<q.loc.process.id, q.user>>, FALSE,
                          Stmt("select_last_child", "ProcessTechnicals")))
  \/ /\ At(r, "create_process", "fetch_technical")
     /\ Step(r, IF Failed(q) THEN Propagate(q)
                ELSE NextTechnical([CloseOther(BindOther(q)) EXCEPT
                       !.loc.technical_values =
                          IF Rows(q) = <<>> THEN @ ELSE Append(@, Rows(q)[1]),
                       !.loc.i = @ + 1]))

\* the loop over the listed rows: the children of the next one are
\* fetched, or the page is returned
NextProcess(q) ==
  IF q.loc.i > Len(q.loc.rows)
  THEN Finally(q, Return(ListResult(q.loc.rows, q.loc.total, q.data)))
  ELSE Call(q, "technicals", "sp_ProcessTechnical_GetByProcessId", <<q.loc.rows[q.loc.i].id>>, FALSE,
            Stmt("select_children", "ProcessTechnicals"))

get_processes(r) ==
  LET q == req[r] IN
  \/ /\ CanStart(r, "Processes")
     /\ \E a \in ListInputs : Step(r, ListCount("get_processes", "Processes", a))
  \/ /\ At(r, "get_processes", "count")
     /\ Step(r, IF Failed(q) THEN Propagate(q) ELSE ListPage(q, "Processes", "sp_Process_GetAll"))
  \/ /\ At(r, "get_processes", "page")
     /\ Step(r, IF Failed(q) THEN Propagate(q) ELSE NextProcess(PageRows(q)))
  \/ /\ At(r, "get_processes", "technicals")
     /\ Step(r, IF Failed(q) THEN Propagate(q)
                ELSE NextProcess(Enriched(CloseOther(BindOther(q)), "technicalValues")))

search_processes(r) ==
  LET q == req[r]
      like == q.data.search IN
  \/ /\ CanStart(r, "Processes")
     /\ \E a \in ListInputs, search \in SearchTerms :
          Step(r, IF search = "" THEN ListCount("get_processes", "Processes", a)
                  ELSE SearchCount("search_processes", "Processes", a, search, <<search, search>>))
  \/ /\ At(r, "search_processes", "count")
     /\ Step(r, IF Failed(q) THEN Propagate(q)
                ELSE SearchPage(q, "Processes", None, <<like, like>>))
  \/ /\ At(r, "search_processes", "page")
     /\ Step(r, IF Failed(q) THEN Propagate(q)
                ELSE Finally(Bind(q), Return(ListResult(Rows(q), q.loc.total, q.data))))

get_process_by_id(r) ==
  LET q == req[r] IN
  \/ /\ CanStart(r, "Processes")
     /\ \E process_id \in Ids :
          Step(r, Call([Enter("get_process_by_id", [id |-> process_id], 0) EXCEPT !.last = req[r].last], "get",
                       "sp_Process_GetById", <<process_id>>, FALSE,
                       Stmt("select_active_by_id", "Processes")))
  \/ /\ At(r, "get_process_by_id", "get")
     /\ Step(r, IF Failed(q) THEN Propagate(q)
                ELSE IF Rows(q) = <<>> THEN Finally(Bind(q), Return(RowOrNone(Rows(q))))
                ELSE Call([Bind(q) EXCEPT !.loc = [process |-> Rows(q)[1]]], "technicals", None,
                          <<q.data.id>>, FALSE, Stmt("select_children", "ProcessTechnicals")))
  \/ /\ At(r, "get_process_by_id", "technicals")
     /\ Step(r, IF Failed(q) THEN Propagate(q)
                ELSE Finally(CloseOther(BindOther(q)),
                             Return(Put(q.loc.process, "technicalValues", Rows(q)))))

update_process(r) ==
  LET q == req[r]
      data == q.data
      existing == Rows(q)[1] IN
  \/ /\ CanStart(r, "Processes")
     /\ \E d \in ProcessUpdates, id \in Ids, user \in Users :
          Step(r, Call(Enter("update_process", Put(d, "id", id), user), "check", None,
                       <<id>>, FALSE, Stmt("select_by_id", "Processes")))
  \/ /\ At(r, "update_process", "check")
     /\ Step(r, IF Failed(q) THEN Propagate(q)
                ELSE LET q1 == Bind(q)
                         error == Precheck(Rows(q), "Process not found", "Cannot update inactive process") IN
                     IF error # "" THEN Finally(q1, Raise(error))
                     ELSE Call(q1, "update", "sp_Process_Update",
                               <<GetOr(data, "processName", existing.processName),
                                 IF Has(data, "description") THEN data.description
                                 ELSE existing.description,
                                 GetOr(data, "workstationId", existing.workstationId),
                                 GetOr(data, "processTime", existing.processTime),
                                 GetOr(data, "setupTime", existing.setupTime),
                                 q.user, data.id>>,
                               TRUE, Stmt("update", "Processes")))
  \/ /\ At(r, "update_process", "update")
     /\ Step(r, IF Failed(q) THEN Propagate(q)
                ELSE Call(Bind(q), "fetch", None, <<data.id>>, FALSE,
                          Stmt("select_by_id", "Processes")))
  \/ /\ At(r, "update_process", "fetch")
     /\ Step(r, IF Failed(q) THEN Propagate(q)
                ELSE Finally(Bind(q), Return(RowOrId(Rows(q), data.id))))

delete_process(r) ==
  LET q == req[r] IN
  \/ /\ CanStart(r, "Processes")
     /\ \E process_id \in Ids, user \in Users :
          Step(r, Call(Enter("delete_process", [id |-> process_id], user), "check", None,
                       <<process_id>>, FALSE, Stmt("select_by_id", "Processes")))
  \/ /\ At(r, "delete_process", "check")
     /\ Step(r, IF Failed(q) THEN Propagate(q)
                ELSE LET q1 == Bind(q)
                         error == Precheck(Rows(q), "Process not found", "Process already deleted") IN
                     IF error # "" THEN Finally(q1, Raise(error))
                     ELSE Call(q1, "delete", "sp_Process_Delete", <<q.user, q.data.id>>, TRUE,
                               Stmt("deactivate", "Processes")))
  \/ /\ At(r, "delete_process", "delete")
     /\ Step(r, IF Failed(q) THEN Propagate(q)
                ELSE Call(Bind(q), "fetch", None, <<q.data.id>>, FALSE,
                          Stmt("select_by_id", "Processes")))
  \/ /\ At(r, "delete_process", "fetch")
     /\ Step(r, IF Failed(q) THEN Propagate(q)
                ELSE Finally(Bind(q), Return(RowOrId(Rows(q), q.data.id))))

ProcessService(r) ==
  \/ Serving(r, "create_process") /\ create_process(r)
  \/ Serving(r, "get_processes") /\ get_processes(r)
  \/ Serving(r, "search_processes") /\ search_processes(r)
  \/ Serving(r, "get_process_by_id") /\ get_process_by_id(r)
  \/ Serving(r, "update_process") /\ update_process(r)
  \/ Serving(r, "delete_process") /\ delete_process(r)

\* ------------------------------------------------------------------ routes
RoutePayloads ==
  { [routeName |-> "a", description |-> "d", isMainRoute |-> TRUE],
    [routeName |-> "a", description |-> "d", isMainRoute |-> TRUE,
     processSequence |-> <<[processId |-> 1, processOrder |-> 2],
                           [processId |-> 2, processOrder |-> 1]>>] }

\* an update body that carries the name only
RouteUpdates == { [routeName |-> "b"] }

\* `1 if x else 0`
Bit(b) == IF b THEN 1 ELSE 0

\* the loop over data["processSequence"]
NextRouteProcess(q) ==
  IF ~Has(q.data, "processSequence") \/ q.loc.i > Len(q.data.processSequence)
  THEN Finally(q, Return(Put(q.loc.route, "processSequence", q.loc.process_sequence)))
  ELSE LET process_item == q.data.processSequence[q.loc.i] IN
       Call(q, "insert_process", "sp_RouteProcess_Create",
            <<q.loc.route.id, Get(process_item, "processId"),
              Get(process_item, "processOrder")>>, TRUE,
            Stmt("insert", "RouteProcess"))

create_route(r) ==
  LET q == req[r] IN
  \/ /\ CanStart(r, "Routes") /\ Room("Routes")
     /\ \E data \in RoutePayloads, user \in Users :
          Step(r, Call(Enter("create_route", data, user), "insert", "sp_Route_Create",
                       <<data.routeName, Get(data, "description"),
                         Bit(GetOr(data, "isMainRoute", TRUE)), user, user>>, TRUE,
                       Stmt("insert", "Routes")))
  \/ /\ At(r, "create_route", "insert")
     /\ Step(r, IF Failed(q) THEN Propagate(q)
                ELSE Call(Bind(q), "fetch", None, <<q.user>>, FALSE,
                          Stmt("select_last_created", "Routes")))
  \/ /\ At(r, "create_route", "fetch")
     /\ Step(r, IF Failed(q) THEN Propagate(q)
                ELSE IF Rows(q) = <<>>
                THEN Finally(Bind(q), Raise("Failed to retrieve created route"))
                ELSE NextRouteProcess([Bind(q) EXCEPT !.loc = [route |-> Rows(q)[1],
                                                               process_sequence |-> <<>>,
                                                               i |-> 1]]))
  \/ /\ At(r, "create_route", "insert_process")
     /\ Step(r, IF Failed(q) THEN Propagate(q)
                ELSE Call(BindOther(q), "fetch_process", None, q.call.params, FALSE,
                          Stmt("select_route_process", "RouteProcess")))
  \/ /\ At(r, "create_route", "fetch_process")
     /\ Step(r, IF Failed(q) THEN Propagate(q)
                ELSE NextRouteProcess([CloseOther(BindOther(q)) EXCEPT
                       !.loc.process_sequence =
                          IF Rows(q) = <<>> THEN @ ELSE Append(@, Rows(q)[1]),
                       !.loc.i = @ + 1]))

\* the loop over the listed rows: the children of the next one are
\* fetched, or the page is returned
NextRoute(q) ==
  IF q.loc.i > Len(q.loc.rows)
  THEN Finally(q, Return(ListResult(q.loc.rows, q.loc.total, q.data)))
  ELSE Call(q, "sequence", "sp_RouteProcess_GetByRouteId", <<q.loc.rows[q.loc.i].id>>, FALSE,
            Stmt("select_children", "RouteProcess"))

get_routes(r) ==
  LET q == req[r] IN
  \/ /\ CanStart(r, "Routes")
     /\ \E a \in ListInputs : Step(r, ListCount("get_routes", "Routes", a))
  \/ /\ At(r, "get_routes", "count")
     /\ Step(r, IF Failed(q) THEN Propagate(q) ELSE ListPage(q, "Routes", "sp_Route_GetAll"))
  \/ /\ At(r, "get_routes", "page")
     /\ Step(r, IF Failed(q) THEN Propagate(q) ELSE NextRoute(PageRows(q)))
  \/ /\ At(r, "get_routes", "sequence")
     /\ Step(r, IF Failed(q) THEN Propagate(q)
                ELSE NextRoute(Enriched(CloseOther(BindOther(q)), "processSequence")))

search_routes(r) ==
  LET q == req[r]
      like == q.data.search IN
  \/ /\ CanStart(r, "Routes")
     /\ \E a \in ListInputs, search \in SearchTerms :
          Step(r, IF search = "" THEN ListCount("get_routes", "Routes", a)
                  ELSE SearchCount("search_routes", "Routes", a, search, <<search, search>>))
  \/ /\ At(r, "search_routes", "count")
     /\ Step(r, IF Failed(q) THEN Propagate(q)
                ELSE SearchPage(q, "Routes", None, <<like, like>>))
  \/ /\ At(r, "search_routes", "page")
     /\ Step(r, IF Failed(q) THEN Propagate(q)
                ELSE Finally(Bind(q), Return(ListResult(Rows(q), q.loc.total, q.data))))

get_route_by_id(r) ==
  LET q == req[r] IN
  \/ /\ CanStart(r, "Routes")
     /\ \E route_id \in Ids :
          Step(r, Call([Enter("get_route_by_id", [id |-> route_id], 0) EXCEPT !.last = req[r].last], "get",
                       "sp_Route_GetById", <<route_id>>, FALSE,
                       Stmt("select_active_by_id", "Routes")))
  \/ /\ At(r, "get_route_by_id", "get")
     /\ Step(r, IF Failed(q) THEN Propagate(q)
                ELSE IF Rows(q) = <<>> THEN Finally(Bind(q), Return(RowOrNone(Rows(q))))
                ELSE Call([Bind(q) EXCEPT !.loc = [route |-> Rows(q)[1]]], "sequence", "sp_RouteProcess_GetByRouteId",
                          <<q.data.id>>, FALSE, Stmt("select_children", "RouteProcess")))
  \/ /\ At(r, "get_route_by_id", "sequence")
     /\ Step(r, IF Failed(q) THEN Propagate(q)
                ELSE Finally(CloseOther(BindOther(q)),
                             Return(Put(q.loc.route, "processSequence", Rows(q)))))

update_route(r) ==
  LET q == req[r]
      data == q.data
      existing == Rows(q)[1] IN
  \/ /\ CanStart(r, "Routes")
     /\ \E d \in RouteUpdates, id \in Ids, user \in Users :
          Step(r, Call(Enter("update_route", Put(d, "id", id), user), "check", None,
                       <<id>>, FALSE, Stmt("select_by_id", "Routes")))
  \/ /\ At(r, "update_route", "check")
     /\ Step(r, IF Failed(q) THEN Propagate(q)
                ELSE LET q1 == Bind(q)
                         error == Precheck(Rows(q), "Route not found", "Cannot update inactive route") IN
                     IF error # "" THEN Finally(q1, Raise(error))
                     ELSE Call(q1, "update", "sp_Route_Update",
                               <<GetOr(data, "routeName", existing.routeName),
                                 IF Has(data, "description") THEN data.description
                                 ELSE existing.description,
                                 IF Has(data, "isMainRoute") THEN Bit(data.isMainRoute)
                                 ELSE Bit(existing.isMainRoute = 1),
                                 q.user, data.id>>,
                               TRUE, Stmt("update", "Routes")))
  \/ /\ At(r, "update_route", "update")
     /\ Step(r, IF Failed(q) THEN Propagate(q)
                ELSE Call(Bind(q), "fetch", None, <<data.id>>, FALSE,
                          Stmt("select_by_id", "Routes")))
  \/ /\ At(r, "update_route", "fetch")
     /\ Step(r, IF Failed(q) THEN Propagate(q)
                ELSE Finally(Bind(q), Return(RowOrId(Rows(q), data.id))))

delete_route(r) ==
  LET q == req[r] IN
  \/ /\ CanStart(r, "Routes")
     /\ \E route_id \in Ids, user \in Users :
          Step(r, Call(Enter("delete_route", [id |-> route_id], user), "check", None,
                       <<route_id>>, FALSE, Stmt("select_by_id", "Routes")))
  \/ /\ At(r, "delete_route", "check")
     /\ Step(r, IF Failed(q) THEN Propagate(q)
                ELSE LET q1 == Bind(q)
                         error == Precheck(Rows(q), "Route not found", "Route already deleted") IN
                     IF error # "" THEN Finally(q1, Raise(error))
                     ELSE Call(q1, "delete", "sp_Route_Delete", <<q.user, q.data.id>>, TRUE,
                               Stmt("deactivate", "Routes")))
  \/ /\ At(r, "delete_route", "delete")
     /\ Step(r, IF Failed(q) THEN Propagate(q)
                ELSE Call(Bind(q), "fetch", None, <<q.data.id>>, FALSE,
                          Stmt("select_by_id", "Routes")))
  \/ /\ At(r, "delete_route", "fetch")
     /\ Step(r, IF Failed(q) THEN Propagate(q)
                ELSE Finally(Bind(q), Return(RowOrId(Rows(q), q.data.id))))

RouteService(r) ==
  \/ Serving(r, "create_route") /\ create_route(r)
  \/ Serving(r, "get_routes") /\ get_routes(r)
  \/ Serving(r, "search_routes") /\ search_routes(r)
  \/ Serving(r, "get_route_by_id") /\ get_route_by_id(r)
  \/ Serving(r, "update_route") /\ update_route(r)
  \/ Serving(r, "delete_route") /\ delete_route(r)

\* ------------------------------------------------------------------ products
ProductPayloads == { [productName |-> "a", description |-> "d", mainRouteId |-> 1] }

\* an update body that carries the name only
ProductUpdates == { [productName |-> "b"] }

create_product(r) ==
  LET q == req[r] IN
  \/ /\ CanStart(r, "Products") /\ Room("Products")
     /\ \E data \in ProductPayloads, user \in Users :
          Step(r, Call(Enter("create_product", data, user), "insert", "sp_Product_Create",
                       <<data.productName, Get(data, "description"), data.mainRouteId,
                         user, user>>, TRUE, Stmt("insert", "Products")))
  \/ /\ At(r, "create_product", "insert")
     /\ Step(r, IF Failed(q) THEN Propagate(q)
                ELSE Call(Bind(q), "fetch", None, <<q.user>>, FALSE,
                          Stmt("select_last_created", "Products")))
  \/ /\ At(r, "create_product", "fetch")
     /\ Step(r, IF Failed(q) THEN Propagate(q)
                ELSE IF Rows(q) = <<>>
                THEN Finally(Bind(q), Raise("Failed to retrieve created product"))
                ELSE Finally(Bind(q), Return(Rows(q)[1])))

get_products(r) ==
  LET q == req[r] IN
  \/ /\ CanStart(r, "Products")
     /\ \E a \in ListInputs : Step(r, ListCount("get_products", "Products", a))
  \/ /\ At(r, "get_products", "count")
     /\ Step(r, IF Failed(q) THEN Propagate(q)
                ELSE ListPage(q, "Products", "sp_Product_GetAll"))
  \/ /\ At(r, "get_products", "page")
     /\ Step(r, IF Failed(q) THEN Propagate(q)
                ELSE Finally(Bind(q), Return(ListResult(Rows(q), q.loc.total, q.data))))

search_products(r) ==
  LET q == req[r]
      like == q.data.search IN
  \/ /\ CanStart(r, "Products")
     /\ \E a \in ListInputs, search \in SearchTerms :
          Step(r, IF search = "" THEN ListCount("get_products", "Products", a)
                  ELSE SearchCount("search_products", "Products", a, search, <<search, search>>))
  \/ /\ At(r, "search_products", "count")
     /\ Step(r, IF Failed(q) THEN Propagate(q)
                ELSE SearchPage(q, "Products", None, <<like, like>>))
  \/ /\ At(r, "search_products", "page")
     /\ Step(r, IF Failed(q) THEN Propagate(q)
                ELSE Finally(Bind(q), Return(ListResult(Rows(q), q.loc.total, q.data))))

get_product_by_id(r) ==
  LET q == req[r] IN
  \/ /\ CanStart(r, "Products")
     /\ \E product_id \in Ids :
          Step(r, Call([Enter("get_product_by_id", [id |-> product_id], 0) EXCEPT !.last = req[r].last], "get",
                       "sp_Product_GetById", <<product_id>>, FALSE,
                       Stmt("select_active_by_id", "Products")))
  \/ /\ At(r, "get_product_by_id", "get")
     /\ Step(r, IF Failed(q) THEN Propagate(q)
                ELSE Finally(Bind(q), Return(RowOrNone(Rows(q)))))

update_product(r) ==
  LET q == req[r]
      data == q.data
      existing == Rows(q)[1] IN
  \/ /\ CanStart(r, "Products")
     /\ \E d \in ProductUpdates, id \in Ids, user \in Users :
          Step(r, Call(Enter("update_product", Put(d, "id", id), user), "check", None,
                       <<id>>, FALSE, Stmt("select_by_id", "Products")))
  \/ /\ At(r, "update_product", "check")
     /\ Step(r, IF Failed(q) THEN Propagate(q)
                ELSE LET q1 == Bind(q)
                         error == Precheck(Rows(q), "Product not found", "Cannot update inactive product") IN
                     IF error # "" THEN Finally(q1, Raise(error))
                     ELSE Call(q1, "update", "sp_Product_Update",
                               <<GetOr(data, "productName", existing.productName),
                                 IF Has(data, "description") THEN data.description
                                 ELSE existing.description,
                                 GetOr(data, "mainRouteId", existing.mainRouteId),
                                 q.user, data.id>>,
                               TRUE, Stmt("update", "Products")))
  \/ /\ At(r, "update_product", "update")
     /\ Step(r, IF Failed(q) THEN Propagate(q)
                ELSE Call(Bind(q), "fetch", None, <<data.id>>, FALSE,
                          Stmt("select_by_id", "Products")))
  \/ /\ At(r, "update_product", "fetch")
     /\ Step(r, IF Failed(q) THEN Propagate(q)
                ELSE Finally(Bind(q), Return(RowOrId(Rows(q), data.id))))

delete_product(r) ==
  LET q == req[r] IN
  \/ /\ CanStart(r, "Products")
     /\ \E product_id \in Ids, user \in Users :
          Step(r, Call(Enter("delete_product", [id |-> product_id], user), "check", None,
                       <<product_id>>, FALSE, Stmt("select_by_id", "Products")))
  \/ /\ At(r, "delete_product", "check")
     /\ Step(r, IF Failed(q) THEN Propagate(q)
                ELSE LET q1 == Bind(q)
                         error == Precheck(Rows(q), "Product not found", "Product already deleted") IN
                     IF error # "" THEN Finally(q1, Raise(error))
                     ELSE Call(q1, "delete", "sp_Product_Delete", <<q.user, q.data.id>>, TRUE,
                               Stmt("deactivate", "Products")))
  \/ /\ At(r, "delete_product", "delete")
     /\ Step(r, IF Failed(q) THEN Propagate(q)
                ELSE Call(Bind(q), "fetch", None, <<q.data.id>>, FALSE,
                          Stmt("select_by_id", "Products")))
  \/ /\ At(r, "delete_product", "fetch")
     /\ Step(r, IF Failed(q) THEN Propagate(q)
                ELSE Finally(Bind(q), Return(RowOrId(Rows(q), q.data.id))))

ProductService(r) ==
  \/ Serving(r, "create_product") /\ create_product(r)
  \/ Serving(r, "get_products") /\ get_products(r)
  \/ Serving(r, "search_products") /\ search_products(r)
  \/ Serving(r, "get_product_by_id") /\ get_product_by_id(r)
  \/ Serving(r, "update_product") /\ update_product(r)
  \/ Serving(r, "delete_product") /\ delete_product(r)

\* ------------------------------------------------------------------ the API
\* Requests on the six entities, served one at a time.
Next ==
  \E r \in {1} :
    \/ UnitService(r) \/ ShiftService(r) \/ WorkstationService(r)
    \/ ProcessService(r) \/ RouteService(r) \/ ProductService(r)
    \/ execute_stored_procedure(r)
    \/ Respond(r)

Spec == Init /\ [][Next]_vars

\* the store after one create_product has been served on the empty store
StoreWithProduct ==
  LET data == CHOOSE d \in ProductPayloads : TRUE
      user == CHOOSE u \in Users : TRUE IN
  Execute(Stmt("insert", "Products"),
          <<data.productName, Get(data, "description"), data.mainRouteId, user, user>>,
          EmptyDb).db

\* Two requests served by two threads at the same time, as the development
\* server of app.run does, on the empty store or on a store with a product:
\* creates of units, shifts and processes and creates, updates and deletes
\* of products, each request taking its steps between the steps of the other.
InitThreaded ==
  /\ db \in {EmptyDb, StoreWithProduct}
  /\ req = [r \in Reqs |-> IdleReq]

NextThreaded ==
  \E r \in Reqs :
    \/ Serving(r, "create_unit") /\ create_unit(r)
    \/ Serving(r, "create_shift") /\ create_shift(r)
    \/ Serving(r, "create_process") /\ create_process(r)
    \/ Serving(r, "create_product") /\ create_product(r)
    \/ Serving(r, "update_product") /\ update_product(r)
    \/ Serving(r, "delete_product") /\ delete_product(r)
    \/ execute_stored_procedure(r)

SpecThreaded == InitThreaded /\ [][NextThreaded]_vars

\* ------------------------------------------------------------------ controllers
\* success_response and error_response: the envelope and the HTTP status
success_response(message, data, status_code) ==
  [status |-> "success", message |-> message, data |-> data, status_code |-> status_code]

error_response(message, data, status_code) ==
  [status |-> "error", message |-> message, data |-> data, status_code |-> status_code]

\* the words each controller names its entity with
Entity ==
  [Units |-> [one |-> "Unit", low |-> "unit", many |-> "Units", lowmany |-> "units"],
   MasterShifts |-> [one |-> "Shift", low |-> "shift", many |-> "Shifts", lowmany |-> "shifts"],
   Workstations |-> [one |-> "Workstation", low |-> "workstation", many |-> "Workstations",
                     lowmany |-> "workstations"],
   Processes |-> [one |-> "Process", low |-> "process", many |-> "Processes",
                  lowmany |-> "processes"],
   Routes |-> [one |-> "Route", low |-> "route", many |-> "Routes", lowmany |-> "routes"],
   Products |-> [one |-> "Product", low |-> "product", many |-> "Products",
                 lowmany |-> "products"]]

\* the controller function that calls each service function
Handler ==
  [create_unit |-> "create", get_units |-> "list", search_units |-> "list",
   get_unit_by_id |-> "get_by_id", update_unit |-> "update", delete_unit |-> "delete",
   create_shift |-> "create", get_shifts |-> "list", search_shifts |-> "list",
   get_shift_by_id |-> "get_by_id", update_shift |-> "update", delete_shift |-> "delete",
   create_workstation |-> "create", get_workstations |-> "list",
   search_workstations |-> "list", update_workstation |-> "update",
   delete_workstation |-> "delete",
   create_process |-> "create", get_processes |-> "list", search_processes |-> "list",
   get_process_by_id |-> "get_by_id", update_process |-> "update",
   delete_process |-> "delete",
   create_route |-> "create", get_routes |-> "list", search_routes |-> "list",
   get_route_by_id |-> "get_by_id", update_route |-> "update", delete_route |-> "delete",
   create_product |-> "create", get_products |-> "list", search_products |-> "list",
   get_product_by_id |-> "get_by_id", update_product |-> "update",
   delete_product |-> "delete",
   create |-> "answered", list_units_api |-> "answered", login |-> "answered",
   login_user |-> "login"]

\* `phrase in msg.lower()` on the messages the services and
\* execute_stored_procedure raise (the driver's own messages are taken not
\* to hold any of the phrases)
InText(phrase, msg) ==
  CASE phrase = "not found" ->
         msg \in {"Unit not found", "Shift not found", "Workstation not found",
                  "Process not found", "Route not found", "Product not found",
                  "not_found_no_fallback"}
    [] phrase = "already deleted" ->
         msg \in {"Unit already deleted", "Shift already deleted", "Process already deleted",
                  "Route already deleted", "Product already deleted"}
    [] phrase = "already exists" -> msg = "Shift already exists"
    [] OTHER -> FALSE

\* What the controller answers when the service function it called has
\* returned or raised (q is the finished call): the lines after the call in
\* its try block, or its except clause.  A request that was over before
\* any service call holds its response already.
Answer(q) ==
  LET e == Entity[TableOf[q.op]]
      h == Handler[q.op]
      returned == q.out.kind = "return"
      msg == q.out.msg
      error == [error |-> msg] IN
  CASE h = "create" ->
         IF returned THEN success_response(e.one \o " created successfully", q.out.val, 201)
         ELSE IF q.op = "create_shift" /\ InText("already exists", msg)
         THEN error_response("Shift already exists", None, 400)
         ELSE error_response("Failed to create " \o e.low, error, 400)
    [] h = "list" ->
         IF returned THEN success_response(e.many \o " retrieved successfully", q.out.val, 200)
         ELSE error_response("Failed to retrieve " \o e.lowmany, error, 500)
    [] h = "get_by_id" ->
         IF ~returned THEN error_response("Failed to retrieve " \o e.low, error, 500)
         ELSE IF q.out.val = NoneValue THEN error_response(e.one \o " not found", None, 404)
         ELSE success_response(e.one \o " retrieved successfully", q.out.val, 200)
    [] h = "update" ->
         IF returned THEN success_response(e.one \o " updated successfully", q.out.val, 200)
         ELSE error_response("Failed to update " \o e.low, error, 400)
    [] h = "delete" ->
         IF returned THEN success_response(e.one \o " deleted successfully", q.out.val, 200)
         ELSE IF q.op # "delete_workstation" /\ InText("already deleted", msg)
         THEN error_response(e.one \o " already deleted", None, 400)
         ELSE IF q.op # "delete_workstation" /\ InText("not found", msg)
         THEN error_response(e.one \o " not found", None, 404)
         ELSE error_response("Failed to delete " \o e.low, error, 400)
    [] h = "login" ->
         IF q.out.val = NoneValue THEN error_response("Invalid credentials", None, 401)
         ELSE success_response("Login successful", [token |-> q.out.val], 200)
    [] h = "answered" -> q.out.val

\* ------------------------------------------------------------------ requests over HTTP
\* generate_token(user_id): a token signed with SECRET_KEY that expires two
\* hours later.  A token is what jwt.decode looks at: the algorithm and the
\* key it was signed with, whether its `exp`, if any, lies before or after
\* the moment of the request, and its payload.
generate_token(user_id) ==
  [alg |-> "HS256", key |-> "super_secret_key", exp |-> "future",
   payload |-> [user_id |-> user_id]]

\* The values of the Authorization header: no header (None), an empty one,
\* a text that is no token, and tokens, bare or after the word Bearer:
\* the one login issues, an expired one, one signed with another key, an
\* unsigned one and one whose payload has no user_id.
Authorizations ==
  LET issued == generate_token(1)
      tokens == { issued, [issued EXCEPT !.exp = "past"],
                  [issued EXCEPT !.key = "another_key"], [issued EXCEPT !.alg = "none"],
                  [issued EXCEPT !.payload = [sub |-> 1]] } IN
  { [header |-> None, text |-> ""], [header |-> "", text |-> ""],
    [header |-> "text", text |-> "abc"] }
  \cup { [header |-> "token", text |-> "", token |-> t] : t \in tokens }
  \cup { [header |-> "token", text |-> "Bearer ", token |-> generate_token(1)] }

\* mutant: the expiry of the token is not looked at
jwt_decode_NoExpiry(authorization) ==
  LET t == authorization.token
      raise(e) == [raised |-> e, payload |-> <<>>] IN
  IF authorization.header # "token" \/ authorization.text # "" THEN raise("DecodeError")
  ELSE IF t.alg # "HS256" THEN raise("InvalidAlgorithmError")
  ELSE IF t.key # "super_secret_key" THEN raise("InvalidSignatureError")
  ELSE [raised |-> "", payload |-> t.payload]

\* jwt.decode(token, SECRET_KEY, algorithms=["HS256"]): the payload, or the
\* exception it raises
jwt_decode(authorization) ==
  LET t == authorization.token
      raise(e) == [raised |-> e, payload |-> <<>>] IN
  IF authorization.header # "token" \/ authorization.text # "" THEN raise("DecodeError")
  ELSE IF t.alg # "HS256" THEN raise("InvalidAlgorithmError")
  ELSE IF t.key # "super_secret_key" THEN raise("InvalidSignatureError")
  ELSE IF t.exp = "past" THEN raise("ExpiredSignatureError")
  ELSE [raised |-> "", payload |-> t.payload]

\* The wrapper of token_required up to `return f(*args, **kwargs)`: the
\* response it returns itself, or the request.user_id it calls f with.
token_required(authorization) ==
  LET reject(message) ==
        [rejected |-> TRUE, response |-> error_response(message, None, 401), user_id |-> 0]
      data == jwt_decode(authorization) IN
  IF authorization.header \in {None, ""} THEN reject("Token required")
  ELSE IF data.raised # "" \/ ~Has(data.payload, "user_id")
  THEN reject("Invalid or expired token")
  ELSE [rejected |-> FALSE, response |-> <<>>, user_id |-> data.payload.user_id]

\* int(x) of Python on a JSON value: an integer, a boolean, or a string as
\* the sequence of its characters (blanks around, a sign, decimal digits);
\* the value, or ValueError
int(x) ==
  LET digit == [c \in {"0", "1", "2", "3", "4", "5", "6", "7", "8", "9"} |->
                  CASE c = "0" -> 0 [] c = "1" -> 1 [] c = "2" -> 2 [] c = "3" -> 3
                    [] c = "4" -> 4 [] c = "5" -> 5 [] c = "6" -> 6 [] c = "7" -> 7
                    [] c = "8" -> 8 [] c = "9" -> 9]
      RECURSIVE strip(_), decimal(_)
      strip(s) == IF s = <<>> THEN s
                  ELSE IF s[1] = " " THEN strip(Tail(s))
                  ELSE IF s[Len(s)] = " " THEN strip(SubSeq(s, 1, Len(s) - 1))
                  ELSE s
      decimal(s) == IF s = <<>> THEN 0
                    ELSE 10 * decimal(SubSeq(s, 1, Len(s) - 1)) + digit[s[Len(s)]]
      value(n) == [raised |-> "", value |-> n]
      text == strip(x.str)
      signed == text # <<>> /\ text[1] \in {"-", "+"}
      digits == IF signed THEN Tail(text) ELSE text IN
  IF Has(x, "int") THEN value(x.int)
  ELSE IF Has(x, "bool") THEN value(IF x.bool THEN 1 ELSE 0)
  ELSE IF digits = <<>> \/ \E i \in DOMAIN digits : digits[i] \notin DOMAIN digit
  THEN [raised |-> "ValueError", value |-> 0]
  ELSE value(IF text[1] = "-" THEN 0 - decimal(digits) ELSE decimal(digits))

\* page = max(1, int(page)) if isinstance(page, (int, str)) else 1
\* per_page = max(1, min(100, int(per_page))) if isinstance(per_page, (int, str)) else 10
Paging(req_data) ==
  LET isinstance(x) == Has(x, "int") \/ Has(x, "bool") \/ Has(x, "str")
      max(a, b) == IF a > b THEN a ELSE b
      min(a, b) == IF a < b THEN a ELSE b
      page == GetOr(req_data, "page", [int |-> 1])
      per_page == GetOr(req_data, "per_page", [int |-> 10])
      p == IF isinstance(page) THEN int(page) ELSE [raised |-> "", value |-> 1]
      pp == IF isinstance(per_page) THEN int(per_page) ELSE [raised |-> "", value |-> 10] IN
  IF p.raised # "" THEN [raised |-> p.raised, page |-> 0, per_page |-> 0]
  ELSE IF pp.raised # "" THEN [raised |-> pp.raised, page |-> 0, per_page |-> 0]
  ELSE [raised |-> "", page |-> max(1, p.value), per_page |-> max(1, min(100, pp.value))]

\* Bodies of POST /unit/list: every pair of a page and a per_page value
\* with the other keys absent, every pair of a sort_by and a sort_order
\* value, and a search term.  A number is [int |-> n], a string the
\* sequence of its characters, true [bool |-> TRUE], null, 2.5 and [] are
\* [json |-> ...]; sort_by, sort_order and search are strings, or None for
\* null.
ListBodies ==
  LET pages == { [int |-> 0 - 1], [int |-> 0], [int |-> 1], [int |-> 2], [int |-> 3],
                 [str |-> <<"2">>], [str |-> <<" ", "-", "3", " ">>], [str |-> <<"a", "b", "c">>],
                 [str |-> <<>>], [str |-> <<"2", ".", "5">>], [bool |-> TRUE],
                 [json |-> "null"], [json |-> "2.5"], [json |-> "[]"] }
      per_pages == { [int |-> 0 - 5], [int |-> 0], [int |-> 1], [int |-> 2], [int |-> 100],
                     [int |-> 101], [str |-> <<"1", "0">>], [str |-> <<"t", "e", "n">>],
                     [bool |-> TRUE], [json |-> "null"] } IN
  { <<>> }
  \cup { [page |-> p] : p \in pages } \cup { [per_page |-> pp] : pp \in per_pages }
  \cup { [page |-> p, per_page |-> pp] : p \in pages, pp \in per_pages }
  \cup { [sort_by |-> sort_by, sort_order |-> sort_order] :
           sort_by \in {"unitName", "id", "unitSymbol", "isActive", "id; DROP TABLE Units", None},
           sort_order \in {"ASC", "DESC", "desc", "sideways", "ASC; DROP TABLE Units", None} }
  \cup { [search |-> search, page |-> [int |-> 1], per_page |-> [int |-> 1],
          sort_by |-> "id", sort_order |-> sort_order] :
           search \in {"", "a", None}, sort_order \in {"DESC", None} }

\* POST /unit/list: token_required, then list_units_api up to the call of
\* get_units or search_units, whose steps follow.  A request turned down on
\* the way is over with its response; the request is kept with the
\* arguments of the service call, request.user_id as the user of the frame.
list_units_api(r) ==
  /\ req[r].op = "idle"
  /\ \E authorization \in Authorizations, req_data \in ListBodies :
       LET request == [authorization |-> authorization, json |-> req_data]
           gate == token_required(authorization)
           search == GetOr(req_data, "search", None)
           paging == Paging(req_data)
           a == [page |-> paging.page, per_page |-> paging.per_page,
                 sort_by |-> GetOr(req_data, "sort_by", "unitName"),
                 sort_order |-> GetOr(req_data, "sort_order", "ASC"), request |-> request]
           over(response) ==
             [Enter("list_units_api", request, gate.user_id)
                EXCEPT !.pc = "done", !.out = Return(response)] IN
       Step(r, IF gate.rejected THEN over(gate.response)
               ELSE IF paging.raised # ""
               THEN over(error_response("Failed to retrieve units",
                                        [error |-> paging.raised], 500))
               ELSE [(IF search \notin {None, ""}
                      THEN SearchCount("search_units", "Units", a, search,
                                       <<search, search, search>>)
                      ELSE ListCount("get_units", "Units", a))
                       EXCEPT !.user = gate.user_id])

\* POST /unit/create: token_required, then create up to the first call
\* create_unit makes
create(r) ==
  /\ req[r].op = "idle" /\ Room("Units")
  /\ \E authorization \in Authorizations, json \in UnitPayloads :
       LET request == [authorization |-> authorization, json |-> json]
           gate == token_required(authorization)
           data == Put(json, "request", request) IN
       Step(r, IF gate.rejected
               THEN [Enter("create", request, 0)
                       EXCEPT !.pc = "done", !.out = Return(gate.response)]
               ELSE Call(Enter("create_unit", data, gate.user_id), "check", None,
                         <<Strip(data.unitName), Strip(data.unitSymbol)>>, FALSE,
                         Stmt("select_duplicate", "Units")))

\* POST /login: `if not request.json`, then login_user up to the call of
\* sp_User_Login
login(r) ==
  /\ req[r].op = "idle"
  /\ \E data \in { <<>>, [username |-> "admin", password |-> "admin123"],
                   [username |-> "admin", password |-> "secret"],
                   [username |-> "u", password |-> "p"], [username |-> "u"] } :
       Step(r, IF data = <<>>
               THEN [Enter("login", data, 0) EXCEPT !.pc = "done",
                       !.out = Return(error_response("Request body is required", None, 400))]
               ELSE Call(Enter("login_user", data, 0), "lookup", "sp_User_Login",
                         <<Get(data, "username"), Get(data, "password")>>, FALSE,
                         Stmt("select_login", "Users")))

\* login_user after the call: the token of the user the lookup found, the
\* token of user 1 for admin / admin123 when it found none or failed, or None
login_user(r) ==
  LET q == req[r]
      hardcoded == Get(q.data, "username") = "admin" /\ Get(q.data, "password") = "admin123"
      fallback == IF hardcoded THEN generate_token(1) ELSE NoneValue IN
  /\ At(r, "login_user", "lookup")
  /\ Step(r, IF Failed(q) THEN Finally(q, Return(fallback))
             ELSE IF Rows(q) # <<>> /\ Rows(q)[1].id # 0
             THEN Finally(Bind(q), Return(generate_token(Rows(q)[1].id)))
             ELSE Finally(Bind(q), Return(fallback)))

\* The stores the requests are served on: up to MaxRows + 1 units created
\* one after the other, none or one of them deleted afterwards; or the
\* accounts of the Users table, which no function of the program writes.
HttpStores ==
  LET names == <<"b", "a", "d", "x", "e">>
      RECURSIVE units(_)
      units(n) == IF n = 0 THEN EmptyDb
                  ELSE Execute(Stmt("insert", "Units"), <<names[n], "d", "x", 1>>,
                               units(n - 1)).db
      user(id, username, password, isActive) ==
        [id |-> id, username |-> username, password |-> password, isActive |-> isActive]
      accounts == { <<>>, <<user(1, "u", "p", 1)>>, <<user(1, "u", "p", 0)>>,
                    <<user(1, "u", "p", 1), user(2, "admin", "admin123", 1)>>,
                    <<user(1, "u", "p", 1), user(2, "admin", "secret", 1)>> } IN
  { units(n) : n \in 0..(MaxRows + 1) }
  \cup { Execute(Stmt("deactivate", "Units"), <<1, k>>, units(n)).db :
           n \in 1..(MaxRows + 1), k \in 1..(MaxRows + 1) }
  \cup { [EmptyDb EXCEPT !["Users"] = u] : u \in accounts }

InitHttp ==
  /\ db \in HttpStores
  /\ req = [r \in Reqs |-> IdleReq]

\* One request at a time: /unit/create and /unit/list with the steps of the
\* service function they call, and /login; the answer ends the request.
NextHttp ==
  \E r \in {1} :
    \/ create(r)
    \/ req[r].op = "create_unit" /\ create_unit(r)
    \/ list_units_api(r)
    \/ req[r].op = "get_units" /\ get_units(r)
    \/ req[r].op = "search_units" /\ search_units(r)
    \/ login(r)
    \/ login_user(r)
    \/ execute_stored_procedure(r)
    \/ Respond(r)

SpecHttp == InitHttp /\ [][NextHttp]_vars

\* ================================================================== claims
\* helpers over the log of the execute_stored_procedure call of request r
CallOf(r) == req[r].call
InCall(r) == req[r].call.ipc # "none"
Terminal(r) == req[r].call.ipc \in {"returned", "raised"}
LogOf(r) == req[r].call.log
ExecEvents(r, path) ==
  {i \in DOMAIN LogOf(r) : LogOf(r)[i].e = "exec" /\ LogOf(r)[i].path = path}
NotFoundEvents(r) ==
  {i \in ExecEvents(r, "procedure") : LogOf(r)[i].res = "not_found"}
OpenEvents(r) ==
  {i \in DOMAIN LogOf(r) : LogOf(r)[i].e = "open" /\ LogOf(r)[i].res = "ok"}
CommitEvents(r) == {i \in DOMAIN LogOf(r) : LogOf(r)[i].e = "commit"}
FailedEvents(r) ==
  {i \in DOMAIN LogOf(r) : LogOf(r)[i].res = "error"
                            /\ LogOf(r)[i].e \in {"open", "exec", "commit"}}
\* the fallback was executed at i after: procedure not found at j, the
\* connection of j closed at k, another connection opened at m
RetryOrder(r, i) ==
  \E j \in NotFoundEvents(r) :
    \E k, m \in DOMAIN LogOf(r) :
      /\ j < k /\ k < m /\ m < i
      /\ LogOf(r)[k].e = "close" /\ LogOf(r)[k].c = LogOf(r)[j].c
      /\ LogOf(r)[m].e = "open" /\ LogOf(r)[m].res = "ok"
      /\ LogOf(r)[m].c = LogOf(r)[i].c /\ LogOf(r)[m].c # LogOf(r)[j].c
      /\ LogOf(r)[i].p = LogOf(r)[j].p /\ LogOf(r)[i].p = CallOf(r).params

\* C1 (as claimed): the fallback statement is executed if and only if the
\* procedure call failed with "not found" and a fallback was supplied, and
\* then the failed connection is closed before the second one is opened, the
\* fallback runs with the same parameters on the second connection, and the
\* call returns that connection open without raising.
C1_AsClaimed ==
  \A r \in Reqs : Terminal(r) =>
    LET retry == NotFoundEvents(r) # {} /\ CallOf(r).fallback IN
    /\ (ExecEvents(r, "fallback") # {}) <=> retry
    /\ retry =>
         /\ \A i \in ExecEvents(r, "fallback") : RetryOrder(r, i)
         /\ CallOf(r).ipc = "returned"
         /\ req[r].conns[CallOf(r).conn] = "open"

\* C1 (amended): the fallback statement is executed only after the procedure
\* call failed with "not found" with a fallback supplied, the failed
\* connection was closed and then a second connection opened, and it runs
\* with the same parameters on the second connection; when the procedure is
\* not found and a fallback is supplied, the call ends having executed the
\* fallback unless the second connection could not be opened; it returns the
\* second connection open when the fallback (and the commit, if requested)
\* succeeded and raises only when one of the retry's steps failed.
C1_FallbackPath ==
  \A r \in Reqs : InCall(r) =>
    LET retry == NotFoundEvents(r) # {} /\ CallOf(r).fallback
        ran == ExecEvents(r, "fallback") IN
    /\ \A i \in ran : CallOf(r).fallback /\ RetryOrder(r, i)
    /\ (Terminal(r) /\ retry) =>
         \/ ran # {}
         \/ \E i \in FailedEvents(r) : LogOf(r)[i].e = "open"
    /\ (CallOf(r).ipc = "returned" /\ ran # {}) =>
         /\ \A i \in ran : LogOf(r)[i].c = CallOf(r).conn /\ LogOf(r)[i].res = "ok"
         /\ req[r].conns[CallOf(r).conn] = "open"
    /\ (CallOf(r).ipc = "raised" /\ ran # {}) =>
         \E i \in FailedEvents(r) : \E j \in ran : j <= i

\* a call of a named procedure that was not found returned through the fallback
C1_Witness ==
  \E r \in Reqs :
    /\ InCall(r) /\ CallOf(r).ipc = "returned" /\ CallOf(r).procedure_name # None
    /\ ExecEvents(r, "fallback") # {} /\ CallOf(r).params # <<>>

\* C2 (as claimed): whenever execute_stored_procedure raises, every
\* connection the call opened has been closed.
C2_AsClaimed ==
  \A r \in Reqs : (InCall(r) /\ CallOf(r).ipc = "raised") =>
    \A i \in OpenEvents(r) : req[r].conns[LogOf(r)[i].c] = "closed"

\* C4 (as claimed): with procedure_name None no procedure call is attempted,
\* and the fallback statement is the first statement executed, on the first
\* and only connection the call opens.
C4_AsClaimed ==
  \A r \in Reqs : (InCall(r) /\ CallOf(r).procedure_name = None) =>
    /\ ExecEvents(r, "procedure") = {}
    /\ Cardinality(OpenEvents(r)) <= 1
    /\ \A i \in ExecEvents(r, "fallback") : \A j \in OpenEvents(r) : LogOf(r)[i].c = LogOf(r)[j].c

\* C5: a commit is issued only when commit is true, only on the connection
\* the call is using, right after a statement executed successfully on it;
\* a call that returns has committed on the returned connection if and only
\* if commit is true, and then the commit is the last thing it did.
C5_CommitIffRequested ==
  \A r \in Reqs : InCall(r) =>
    LET log == LogOf(r) IN
    /\ \A i \in CommitEvents(r) :
         /\ CallOf(r).commit
         /\ i > 1 /\ log[i - 1].e = "exec" /\ log[i - 1].res = "ok"
         /\ log[i - 1].c = log[i].c /\ log[i].c = CallOf(r).conn
    /\ CallOf(r).ipc = "returned" =>
         /\ CallOf(r).commit <=>
              \E i \in CommitEvents(r) : log[i].res = "ok" /\ log[i].c = CallOf(r).conn
         /\ CallOf(r).commit => (Last(log).e = "commit" /\ Last(log).res = "ok")
         /\ ~CallOf(r).commit => (Last(log).e = "exec" /\ Last(log).res = "ok")

\* a call with commit true returned on each path
C5_Witness ==
  \E r \in Reqs :
    /\ InCall(r) /\ CallOf(r).ipc = "returned" /\ CallOf(r).commit
    /\ ExecEvents(r, "fallback") # {} /\ CallOf(r).sql.k = "insert"
    /\ Len(db.Units) > 0

\* ------------------------------------------------------------------ service claims
\* request r has left the service function op (returned or raised)
Done(r, op) == req[r].op = op /\ req[r].pc = "done"

\* the last call of request r raised: a failure of the database, not a
\* decision of the service
DatabaseFailed(r) == req[r].call.ipc = "raised"

WriteKinds == {"insert", "update", "deactivate", "toggle"}
NoWrite(r) == \A i \in DOMAIN req[r].calls : req[r].calls[i].k \notin WriteKinds

ServiceOps ==
  { "create_unit", "get_units", "search_units", "get_unit_by_id", "update_unit", "delete_unit",
    "create_shift", "get_shifts", "search_shifts", "get_shift_by_id", "update_shift",
    "delete_shift", "create_workstation", "get_workstations", "search_workstations",
    "update_workstation", "delete_workstation", "create_process", "get_processes",
    "search_processes", "get_process_by_id", "update_process", "delete_process",
    "create_route", "get_routes", "search_routes", "get_route_by_id", "update_route",
    "delete_route", "create_product", "get_products", "search_products",
    "get_product_by_id", "update_product", "delete_product" }

\* the table each operation reads or writes
GetByIdOps ==
  [get_unit_by_id |-> "Units", get_shift_by_id |-> "MasterShifts",
   get_process_by_id |-> "Processes", get_route_by_id |-> "Routes",
   get_product_by_id |-> "Products"]

ListOps ==
  [get_units |-> "Units", search_units |-> "Units", get_shifts |-> "MasterShifts",
   search_shifts |-> "MasterShifts", get_workstations |-> "Workstations",
   search_workstations |-> "Workstations", get_processes |-> "Processes",
   search_processes |-> "Processes", get_routes |-> "Routes", search_routes |-> "Routes",
   get_products |-> "Products", search_products |-> "Products"]

UpdateOps ==
  [update_unit |-> [t |-> "Units", not_found |-> "Unit not found",
                    inactive |-> "Cannot update inactive unit"],
   update_shift |-> [t |-> "MasterShifts", not_found |-> "Shift not found",
                     inactive |-> "Cannot update inactive shift"],
   update_workstation |-> [t |-> "Workstations", not_found |-> "Workstation not found",
                           inactive |-> "Cannot update inactive workstation"],
   update_process |-> [t |-> "Processes", not_found |-> "Process not found",
                       inactive |-> "Cannot update inactive process"],
   update_route |-> [t |-> "Routes", not_found |-> "Route not found",
                     inactive |-> "Cannot update inactive route"],
   update_product |-> [t |-> "Products", not_found |-> "Product not found",
                       inactive |-> "Cannot update inactive product"]]

HardDeleteOps ==
  [delete_shift |-> [t |-> "MasterShifts", already |-> "Shift already deleted"],
   delete_process |-> [t |-> "Processes", already |-> "Process already deleted"],
   delete_route |-> [t |-> "Routes", already |-> "Route already deleted"],
   delete_product |-> [t |-> "Products", already |-> "Product already deleted"]]

\* row id of table t exists in store d (ids are positions: rows are never removed)
Exists(d, t, id) == id \in DOMAIN d[t]
ActiveIn(d, t, id) == Exists(d, t, id) /\ d[t][id].isActive = 1
InactiveIn(d, t, id) == Exists(d, t, id) /\ d[t][id].isActive = 0

\* C3: when an entity service operation finishes (returns or raises), every
\* connection that execute_stored_procedure returned to it during the
\* operation has been closed.
C3_AsClaimed ==
  \A r \in Reqs :
    (req[r].op \in ServiceOps /\ req[r].pc = "done") =>
      \A c \in req[r].returned : req[r].conns[c] = "closed"

\* C6: a getById that returns yields a record exactly for a row whose
\* isActive flag is 1 and None for an inactive or missing row, and every item
\* of a list or search result is a row whose isActive flag is 1, for every
\* entity, in every state any sequence of creates, updates and deletes
\* leads to.
C6_OnlyActiveRetrievable ==
  \A r \in Reqs :
    LET q == req[r] IN
    (q.pc = "done" /\ q.out.kind = "return") =>
      /\ q.op \in DOMAIN GetByIdOps =>
           IF ActiveIn(db, GetByIdOps[q.op], q.data.id)
           THEN q.out.val # NoneValue /\ q.out.val.id = q.data.id /\ q.out.val.isActive = 1
           ELSE q.out.val = NoneValue
      /\ q.op \in DOMAIN ListOps =>
           \A i \in DOMAIN q.out.val.items :
             ActiveIn(db, ListOps[q.op], q.out.val.items[i].id)

\* C6 witness: a list answered with a row while another row of the table is
\* inactive, so the filter had something to leave out.
C6_Witness ==
  \E r \in Reqs :
    /\ Done(r, "get_processes") /\ req[r].out.kind = "return"
    /\ req[r].out.val.items # <<>>
    /\ \E id \in DOMAIN db.Processes : db.Processes[id].isActive = 0

\* C7 as stated: for every entity, an update on an id with no row fails with
\* "... not found" and an update on a row whose isActive flag is 0 fails
\* with "Cannot update inactive ...", whatever the request body is (the
\* database answering every lookup).
C7_AsClaimed ==
  \A r \in Reqs :
    LET q == req[r] IN
    (q.pc = "done" /\ q.op \in DOMAIN UpdateOps /\ q.data.id \in Ids
       /\ ~ActiveIn(q.db0, UpdateOps[q.op].t, q.data.id)
       /\ (q.calls = <<>> \/ ~DatabaseFailed(r))) =>
      q.out.msg = IF Exists(q.db0, UpdateOps[q.op].t, q.data.id)
                  THEN UpdateOps[q.op].inactive ELSE UpdateOps[q.op].not_found

\* C7: for every entity, an update on an id with no row or on a row whose
\* isActive flag is 0 fails, issues no write statement and leaves the stored
\* rows unchanged; when the request body passes the service's own validation
\* (so that the row is looked up) and the lookup completes, the failure is
\* "... not found" for no row and "Cannot update inactive ..." for an
\* inactive row.
C7_UpdateRejected ==
  \A r \in Reqs :
    LET q == req[r] IN
    (q.pc = "done" /\ q.op \in DOMAIN UpdateOps
       /\ ~ActiveIn(q.db0, UpdateOps[q.op].t, q.data.id)) =>
      /\ q.out.kind = "raise"
      /\ NoWrite(r)
      /\ db = q.db0
      /\ (q.calls # <<>> /\ ~DatabaseFailed(r)) =>
           q.out.msg = IF Exists(q.db0, UpdateOps[q.op].t, q.data.id)
                       THEN UpdateOps[q.op].inactive ELSE UpdateOps[q.op].not_found

\* C7 witness: an update of a deactivated route was refused as inactive.
C7_Witness ==
  \E r \in Reqs :
    /\ Done(r, "update_route")
    /\ InactiveIn(req[r].db0, "Routes", req[r].data.id)
    /\ req[r].out.msg = "Cannot update inactive route"

C9_AsClaimed ==
  \A r \in Reqs :
    (Done(r, "delete_unit") /\ InactiveIn(req[r].db0, "Units", req[r].data.id)
       /\ ~DatabaseFailed(r)) =>
      /\ req[r].out.kind = "return"
      /\ ActiveIn(db, "Units", req[r].data.id)

\* C10: a delete of a workstation that returns has flipped the row's
\* isActive flag (1 to 0, 0 to 1) and returns the row with the new value; no
\* delete of a workstation fails with "already deleted"; and when two deletes
\* of the same workstation return one right after the other, the row has
\* the isActive value it had before the first.
C10_WorkstationToggle ==
  \A r \in Reqs :
    LET q == req[r]
        id == q.data.id IN
    Done(r, "delete_workstation") =>
      /\ q.out.msg # "Workstation already deleted"
      /\ (q.out.kind = "return" /\ Exists(q.db0, "Workstations", id)) =>
           /\ db.Workstations[id].isActive = 1 - q.db0.Workstations[id].isActive
           /\ q.out.val.isActive = db.Workstations[id].isActive
           /\ (q.last.op = "delete_workstation" /\ q.last.id = id) =>
                db.Workstations[id].isActive = q.last.db0.Workstations[id].isActive

\* C10 witness: two deletes of an active workstation in a row, after which
\* it is active again.
C10_Witness ==
  \E r \in Reqs :
    /\ Done(r, "delete_workstation") /\ req[r].out.kind = "return"
    /\ req[r].last.op = "delete_workstation" /\ req[r].last.id = req[r].data.id
    /\ ActiveIn(req[r].last.db0, "Workstations", req[r].data.id)
    /\ ActiveIn(db, "Workstations", req[r].data.id)

\* the threads that serve requests
Threads == DOMAIN req

\* the natural key of a unit and of a shift
UnitKey(row) == <<row.unitName, row.unitSymbol>>
ShiftKey(row) == <<row.name, row.startTime, row.endTime>>

\* C11: in every state reachable by creates, updates and deletes, no two
\* active units share the same (name, symbol) pair and no two active shifts
\* share the same (name, start, end) triple.
C11_AsClaimed ==
  /\ \A i, j \in DOMAIN db.Units :
       (i # j /\ db.Units[i].isActive = 1 /\ db.Units[j].isActive = 1) =>
         UnitKey(db.Units[i]) # UnitKey(db.Units[j])
  /\ \A i, j \in DOMAIN db.MasterShifts :
       (i # j /\ db.MasterShifts[i].isActive = 1 /\ db.MasterShifts[j].isActive = 1) =>
         ShiftKey(db.MasterShifts[i]) # ShiftKey(db.MasterShifts[j])

NoInsert(r) == \A i \in DOMAIN req[r].calls : req[r].calls[i].k # "insert"

\* the store d holds an active unit / shift with the key of the create body
UnitTaken(d, data) ==
  \E i \in DOMAIN d.Units :
    /\ d.Units[i].isActive = 1
    /\ UnitKey(d.Units[i]) = <<Strip(data.unitName), Strip(data.unitSymbol)>>
ShiftTaken(d, data) ==
  \E i \in DOMAIN d.MasterShifts :
    /\ d.MasterShifts[i].isActive = 1
    /\ ShiftKey(d.MasterShifts[i]) = <<data.name, data.startTime, data.endTime>>

\* C12: a Unit create whose (name, symbol) is that of an existing active unit
\* and a Shift create whose (name, start, end) is that of an existing active
\* shift are rejected before insertion: no insert statement is issued, the
\* stored rows are unchanged, and (the duplicate lookup completing) the Unit
\* create answers with an error status and the Shift create fails with
\* "Shift already exists".
C12_DuplicateRejected ==
  \A r \in Threads :
    LET q == req[r] IN
    /\ (Done(r, "create_unit") /\ UnitTaken(q.db0, q.data)) =>
         /\ NoInsert(r) /\ db = q.db0
         /\ ~DatabaseFailed(r) => (q.out.kind = "return" /\ q.out.val = [status |-> "error"])
    /\ (Done(r, "create_shift") /\ ShiftTaken(q.db0, q.data)) =>
         /\ NoInsert(r) /\ db = q.db0
         /\ q.out.kind = "raise"
         /\ ~DatabaseFailed(r) => q.out.msg = "Shift already exists"

\* C12 witness: a unit whose name differs from a stored one only by blanks
\* around it was refused as a duplicate.
C12_Witness ==
  \E r \in Threads :
    /\ Done(r, "create_unit") /\ UnitTaken(req[r].db0, req[r].data)
    /\ req[r].data.unitName = " a"
    /\ req[r].out.val = [status |-> "error"]

\* the attributes of each entity that an update body can carry
Attributes ==
  [Units |-> {"unitName", "unitSymbol", "description"},
   MasterShifts |-> {"name", "startTime", "endTime", "duration", "colorCode"},
   Workstations |-> {"workstationName", "description"},
   Processes |-> {"processName", "description", "workstationId", "processTime", "setupTime"},
   Routes |-> {"routeName", "description", "isMainRoute"},
   Products |-> {"productName", "description", "mainRouteId"}]

\* C13: for every entity, an update that succeeds leaves each attribute that
\* is absent from its input at the value stored before, and does not change
\* isActive.
C13_AsClaimed ==
  \A r \in Threads :
    LET q == req[r]
        t == UpdateOps[q.op].t
        id == q.data.id IN
    (q.pc = "done" /\ q.op \in DOMAIN UpdateOps /\ q.out.kind = "return") =>
      /\ db[t][id].isActive = q.db0[t][id].isActive
      /\ \A c \in Attributes[t] \ DOMAIN q.data : db[t][id][c] = q.db0[t][id][c]

\* the create whose record each getById is asked for
CreateOf ==
  [get_unit_by_id |-> "create_unit", get_shift_by_id |-> "create_shift",
   get_process_by_id |-> "create_process", get_route_by_id |-> "create_route",
   get_product_by_id |-> "create_product"]

\* the keys of a create body that carry child records
ChildKeys == {"technicalValues", "processSequence"}

\* request r is a getById that returned, called with the id of the record
\* that the create answered just before returned
GotCreated(r) ==
  /\ req[r].pc = "done" /\ req[r].op \in DOMAIN CreateOf /\ req[r].out.kind = "return"
  /\ req[r].last.op = CreateOf[req[r].op] /\ req[r].last.id = req[r].data.id

\* a submitted value as the store holds it: a boolean is stored as a bit
\* (and read back as the same boolean)
Stored(c, v) == IF c = "isMainRoute" THEN (IF v THEN 1 ELSE 0) ELSE v

\* a submitted value as a create that trims names holds it
Trimmed(c, v) ==
  IF c \in {"unitName", "unitSymbol"}
  THEN (CASE v = " a" -> "a" [] v = "a " -> "a" [] OTHER -> v)
  ELSE Stored(c, v)

\* the child records of the record val under key c, reduced to the fields
\* of the submitted child records
ChildrenOf(val, c, submitted) ==
  { Project(val[c][i], DOMAIN submitted[1]) : i \in DOMAIN val[c] }

\* C14 as stated: sequentially, for Unit, Shift, Process, Route and Product,
\* getById with the id of the record a successful create returned yields a
\* record with isActive = 1 whose attributes equal the attributes submitted.
C14_AsClaimed ==
  \A r \in Threads :
    LET val == req[r].out.val
        data == req[r].last.data IN
    GotCreated(r) =>
      /\ val # NoneValue
      /\ val.isActive = 1
      /\ \A c \in DOMAIN data \ ChildKeys : val[c] = Stored(c, data[c])
      /\ \A c \in DOMAIN data \cap ChildKeys :
           ChildrenOf(val, c, data[c]) = { data[c][i] : i \in DOMAIN data[c] }

\* C14: sequentially, for Unit, Shift, Process, Route and Product, getById
\* with the id of the record a successful create returned yields a record
\* with isActive = 1 whose attributes equal the attributes submitted, the
\* name and symbol of a unit with the blanks around them removed.
C14_CreatedIsRetrievable ==
  \A r \in Threads :
    LET val == req[r].out.val
        data == req[r].last.data IN
    GotCreated(r) =>
      /\ val # NoneValue
      /\ val.isActive = 1
      /\ \A c \in DOMAIN data \ ChildKeys : val[c] = Trimmed(c, data[c])
      /\ \A c \in DOMAIN data \cap ChildKeys :
           ChildrenOf(val, c, data[c]) = { data[c][i] : i \in DOMAIN data[c] }

\* C14 witness: a unit sent with blanks around its name was created and
\* then read back by its id.
C14_Witness ==
  \E r \in Threads :
    /\ GotCreated(r) /\ req[r].op = "get_unit_by_id"
    /\ req[r].last.data.unitName = " a"
    /\ req[r].out.val # NoneValue

\* the create body of request r lists a shift that is not an active shift
\* of the store the request found
InvalidShift(r) ==
  /\ Has(req[r].data, "shifts")
  /\ \E i \in DOMAIN req[r].data.shifts :
       ~ActiveIn(req[r].db0, "MasterShifts", req[r].data.shifts[i].shiftId)

\* C15: a workstation creation whose shifts list names a shiftId that is not
\* an existing active shift fails as a whole: it raises, and (the database
\* answering every statement) afterwards the
\* store holds no workstation row and no workstation-shift assignment that
\* the call created.
C15_AsClaimed ==
  \A r \in Threads :
    (Done(r, "create_workstation") /\ InvalidShift(r) /\ ~DatabaseFailed(r)) =>
      /\ req[r].out.kind = "raise"
      /\ db.Workstations = req[r].db0.Workstations
      /\ db.WorkstationShifts = req[r].db0.WorkstationShifts

\* C17: in every state reachable by workstation and shift operations, each
\* active workstation-shift assignment references a shift row that exists
\* and is active.
C17_AsClaimed ==
  \A i \in DOMAIN db.WorkstationShifts :
    db.WorkstationShifts[i].isActive = 1 =>
      ActiveIn(db, "MasterShifts", db.WorkstationShifts[i].shiftId)

\* C20: getById of a route returns the sequence entries of that route sorted
\* by processOrder ascending, and for a route just created with a
\* processSequence, in whatever order its entries were given, every entry
\* submitted.
C20_SequenceOrdered ==
  \A r \in Threads :
    LET val == req[r].out.val
        seq == val.processSequence IN
    (Done(r, "get_route_by_id") /\ req[r].out.kind = "return" /\ val # NoneValue) =>
      /\ \A i \in DOMAIN seq : seq[i].routeId = req[r].data.id
      /\ \A i, j \in DOMAIN seq : i < j => seq[i].processOrder <= seq[j].processOrder
      /\ (GotCreated(r) /\ Has(req[r].last.data, "processSequence")) =>
           Len(seq) = Len(req[r].last.data.processSequence)

\* C20 witness: a route created with its entries given in descending
\* processOrder was read back with both entries.
C20_Witness ==
  \E r \in Threads :
    /\ Done(r, "get_route_by_id") /\ GotCreated(r)
    /\ Has(req[r].last.data, "processSequence")
    /\ req[r].last.data.processSequence[1].processOrder
         > req[r].last.data.processSequence[2].processOrder
    /\ Len(req[r].out.val.processSequence) = 2
    /\ req[r].out.val.processSequence[1].processOrder = 1

\* the identities of the rows of table t that request r has inserted
InsertedBy(r, t) ==
  { req[r].calls[i].identity :
      i \in { j \in DOMAIN req[r].calls :
                /\ req[r].calls[j].k = "insert" /\ req[r].calls[j].t = t
                /\ Has(req[r].calls[j], "identity") } }

\* C16: in every execution, concurrent creates included, each technical
\* value inserted by a create_process call references the process row that
\* the same call inserted, and every technical value in the store was
\* inserted by a create_process call.
C16_AsClaimed ==
  /\ \A r \in Threads :
       req[r].op = "create_process" =>
         \A c \in InsertedBy(r, "ProcessTechnicals") :
           db.ProcessTechnicals[c].processId \in InsertedBy(r, "Processes")
  /\ \A c \in DOMAIN db.ProcessTechnicals :
       \E r \in Threads :
         req[r].op = "create_process" /\ c \in InsertedBy(r, "ProcessTechnicals")

\* request r is a create that returned a record
Created(r) ==
  /\ req[r].pc = "done" /\ req[r].op \in {"create_process", "create_product"}
  /\ req[r].out.kind = "return" /\ Has(req[r].out.val, "id")

Succeeded(r, op) == Done(r, op) /\ req[r].out.kind = "return"

\* C19: an update or a delete of a product does not report success on a row
\* that was already inactive when the request was taken up; so two deletes
\* of the same row that both report success, and an update that succeeds on
\* a row a delete deactivates, are requests in progress at the same time,
\* each taken up before the other wrote, and a request taken up after a
\* delete of the row has returned does not succeed.
C19_NoSuccessIfInactiveAtEntry ==
  \A r \in Threads :
    (Succeeded(r, "delete_product") \/ Succeeded(r, "update_product")) =>
      ~InactiveIn(req[r].db0, "Products", req[r].data.id)

\* C19 witness: two deletes of the same active product have both reported
\* success.
C19_Witness ==
  \E r \in Threads, x \in Threads :
    /\ r # x
    /\ Succeeded(r, "delete_product") /\ Succeeded(x, "delete_product")
    /\ req[r].data.id = req[x].data.id
    /\ InactiveIn(db, "Products", req[r].data.id)

\* C19, second interleaving: an update of a product succeeded although a
\* delete in progress at the same time had already deactivated the row (the
\* delete read the row back, inactive and with its old name, before the
\* update wrote the new name).
C19_UpdateAfterDelete ==
  \E r \in Threads, x \in Threads :
    /\ r # x
    /\ Succeeded(r, "update_product") /\ Succeeded(x, "delete_product")
    /\ req[r].data.id = req[x].data.id
    /\ req[x].out.val.isActive = 0
    /\ req[x].out.val.productName # req[r].data.productName
    /\ db.Products[req[r].data.id].productName = req[r].data.productName
    /\ InactiveIn(db, "Products", req[r].data.id)

\* ------------------------------------------------------------------ list and search
\* the key under which a list item carries its child collection
ChildKey ==
  [Workstations |-> "shifts", Processes |-> "technicalValues", Routes |-> "processSequence"]

\* the fields of an item of the list of table t: the selected columns and,
\* for an entity with children, its child collection
ItemFields(t) ==
  ListColumns(t) \cup (IF t \in DOMAIN ChildKey THEN {ChildKey[t]} ELSE {})

\* C24 (as claimed): every item of a list result and every item of a search
\* result of an entity carries the same fields, the child collection of the
\* row included (technical values of a process, process sequence of a
\* route, shift assignments of a workstation).
C24_AsClaimed ==
  \A r \in Reqs :
    LET q == req[r] IN
    (q.op \in DOMAIN ListOps /\ q.pc = "done" /\ q.out.kind = "return") =>
      \A i \in DOMAIN q.out.val.items :
        DOMAIN q.out.val.items[i] = ItemFields(ListOps[q.op])

\* C24, the part that holds: the items of every list, and of the search of
\* units, shifts, workstations and products, carry the fields of the list.
C24_ListShape ==
  \A r \in Reqs :
    LET q == req[r] IN
    (q.op \in DOMAIN ListOps \ {"search_processes", "search_routes"}
       /\ q.pc = "done" /\ q.out.kind = "return") =>
      \A i \in DOMAIN q.out.val.items :
        DOMAIN q.out.val.items[i] = ItemFields(ListOps[q.op])

\* C24: a search of processes answered with an item that has no technical
\* values
C24_SearchWithoutChildren ==
  \E r \in Reqs :
    /\ Done(r, "search_processes") /\ req[r].out.kind = "return"
    /\ \E i \in DOMAIN req[r].out.val.items :
         "technicalValues" \notin DOMAIN req[r].out.val.items[i]

\* ------------------------------------------------------------------ soft delete
\* the entities whose delete is a one-way deactivation
OneWayTables == {"Units", "MasterShifts", "Processes", "Routes", "Products"}

\* one step of the program on the table t: no row is removed or renumbered,
\* a row that is inactive stays inactive, a new row is active
FlagStep(t) ==
  /\ Len(db'[t]) >= Len(db[t])
  /\ \A i \in DOMAIN db[t] :
       /\ db'[t][i].id = db[t][i].id
       /\ db[t][i].isActive = 0 => db'[t][i].isActive = 0
  /\ \A i \in DOMAIN db'[t] \ DOMAIN db[t] : db'[t][i].isActive = 1

InsertedDuplicateOf(r, x) ==
  \/ /\ req[r].op = "create_unit" /\ req[x].op = "create_unit"
     /\ InsertedBy(r, "Units") # {} /\ InsertedBy(x, "Units") # {}
     /\ Strip(req[r].data.unitName) = Strip(req[x].data.unitName)
     /\ Strip(req[r].data.unitSymbol) = Strip(req[x].data.unitSymbol)
  \/ /\ req[r].op = "create_shift" /\ req[x].op = "create_shift"
     /\ InsertedBy(r, "MasterShifts") # {} /\ InsertedBy(x, "MasterShifts") # {}
     /\ req[r].data.name = req[x].data.name
     /\ Get(req[r].data, "startTime") = Get(req[x].data, "startTime")
     /\ Get(req[r].data, "endTime") = Get(req[x].data, "endTime")

\* C30 (as claimed): of two create requests in progress at the same time
\* that carry the same (name, symbol) of a unit, or the same (name, start,
\* end) of a shift, at most one inserts a row.
C30_AsClaimed ==
  \A r \in Threads, x \in Threads : r # x => ~InsertedDuplicateOf(r, x)

\* C30: the outcome of the two inserts, two active units with one (name,
\* symbol)
C30_TwoActiveUnits ==
  \E i \in DOMAIN db.Units, j \in DOMAIN db.Units :
    /\ i # j /\ db.Units[i].isActive = 1 /\ db.Units[j].isActive = 1
    /\ UnitKey(db.Units[i]) = UnitKey(db.Units[j])

\* ------------------------------------------------------------------ status codes
\* the service function op of request r has finished and the database
\* answered every statement of it
Finished(r, op) == Done(r, op) /\ ~DatabaseFailed(r)

\* C25 (as claimed): a create rejected because of a duplicate, a unit whose
\* (name, symbol) or a shift whose (name, start, end) an active row already
\* has, is answered with an error envelope and status 400, never with a
\* success envelope or status 201.
C25_AsClaimed ==
  \A r \in Reqs :
    LET q == req[r] IN
    \/ Finished(r, "create_unit") /\ UnitTaken(q.db0, q.data)
    \/ Finished(r, "create_shift") /\ ShiftTaken(q.db0, q.data)
    => Answer(q).status = "error" /\ Answer(q).status_code = 400

\* C25, the part that holds: the duplicate shift is answered with the error
\* envelope "Shift already exists" and status 400.
C25_ShiftRejected ==
  \A r \in Reqs :
    (Finished(r, "create_shift") /\ ShiftTaken(req[r].db0, req[r].data)) =>
      /\ Answer(req[r]).status = "error" /\ Answer(req[r]).status_code = 400
      /\ Answer(req[r]).message = "Shift already exists"

\* C25: a duplicate unit answered with the success envelope and status 201
C25_DuplicateUnitCreated ==
  \E r \in Reqs :
    /\ Finished(r, "create_unit") /\ UnitTaken(req[r].db0, req[r].data)
    /\ NoInsert(r)
    /\ Answer(req[r]).status = "success" /\ Answer(req[r]).status_code = 201

\* the id a get, an update or a delete is addressed at, 0 when the body has
\* none
Addressed(q) == GetOr(q.data, "id", 0)

\* the body of the request was turned down before any lookup
Invalid(q) ==
  q.out.msg \in {"Request body is required", "id is required", "workstationName is required"}

\* the operations that address a row by its id
ById == {op \in DOMAIN Handler : Handler[op] \in {"get_by_id", "update", "delete"}}

\* C26 (as claimed): a get, an update or a delete addressed at an id for
\* which no row exists is answered with an error envelope and status 404,
\* for every entity that has the operation (the body being complete and the
\* database answering).
C26_AsClaimed ==
  \A r \in Reqs :
    LET q == req[r] IN
    (q.op \in ById /\ Finished(r, q.op) /\ ~Invalid(q) /\ Addressed(q) # 0
       /\ ~Exists(q.db0, TableOf[q.op], Addressed(q))) =>
      Answer(q).status = "error" /\ Answer(q).status_code = 404

\* C26, the part that holds: the get of every entity and the delete of
\* Unit, Shift, Process, Route and Product answer 404 for an id without row.
C26_GetAndDelete ==
  \A r \in Reqs :
    LET q == req[r] IN
    (q.op \in ById /\ Handler[q.op] # "update" /\ q.op # "delete_workstation"
       /\ Finished(r, q.op) /\ ~Exists(q.db0, TableOf[q.op], Addressed(q))) =>
      Answer(q).status = "error" /\ Answer(q).status_code = 404

\* C26: an update of a unit that does not exist answered with status 400
C26_UpdateNotFound ==
  \E r \in Reqs :
    /\ Finished(r, "update_unit") /\ ~Exists(req[r].db0, "Units", req[r].data.id)
    /\ req[r].out.msg = "Unit not found"
    /\ Answer(req[r]).status_code = 400

\* ------------------------------------------------------------------ C22
\* the request of a call that came in over HTTP, and whether it got
\* past token_required
Request(q) == IF q.op \in {"create", "list_units_api"} THEN q.data ELSE q.data.request
OverHttp(q) == q.op \in {"create", "list_units_api"} \/ Has(q.data, "request")
Admitted(q) == OverHttp(q) /\ ~token_required(Request(q).authorization).rejected
ListRequest(q) ==
  Admitted(q) /\ q.op \in {"list_units_api", "get_units", "search_units"}

\* a page or per_page value that is a number: an integer, or a string int() reads
Numeric(x) == Has(x, "int") \/ (Has(x, "str") /\ int(x).raised = "")

\* C22 as claimed: whatever page and per_page the body of a list request
\* carries, the endpoint does not fail because of it and calls the service
\* with page >= 1 and 1 <= per_page <= 100, a value that is not a number
\* being replaced by the default, page 1 and per_page 10.
C22_AsClaimed ==
  \A r \in Reqs :
    LET q == req[r]
        json == Request(q).json IN
    ListRequest(q) =>
      /\ q.op # "list_units_api"
      /\ q.data.page >= 1 /\ q.data.per_page \in 1..100
      /\ (Has(json, "page") /\ ~Numeric(json.page)) => q.data.page = 1
      /\ (Has(json, "per_page") /\ ~Numeric(json.per_page)) => q.data.per_page = 10

\* What holds: a list request whose page and per_page are integers, strings
\* int() reads, or neither integer, boolean nor string (null, 2.5, []) calls
\* the service with page >= 1 and 1 <= per_page <= 100, the defaults
\* replacing the last kind and a key left out.
C22_ClampedWhenReadable ==
  \A r \in Reqs :
    LET q == req[r]
        json == Request(q).json
        readable(k) == ~Has(json, k) \/ Numeric(json[k]) \/ Has(json[k], "json")
        default(k) == ~Has(json, k) \/ Has(json[k], "json") IN
    (ListRequest(q) /\ readable("page") /\ readable("per_page")) =>
      /\ q.op # "list_units_api"
      /\ q.data.page >= 1 /\ q.data.per_page \in 1..100
      /\ default("page") => q.data.page = 1
      /\ default("per_page") => q.data.per_page = 10

\* a list request with page "abc" was answered 500
C22_NonNumericFails ==
  \E r \in Reqs :
    /\ ListRequest(req[r]) /\ req[r].op = "list_units_api"
    /\ Request(req[r]).json = [page |-> [str |-> <<"a", "b", "c">>]]
    /\ Answer(req[r]).status_code = 500

\* ------------------------------------------------------------------ C23
\* the ORDER BY clauses of the statements the call has composed are as the
\* claim says, for the sort_by and sort_order the call was made with; the
\* keywords of a direction are read without regard to case
OrderByAsClaimed(q) ==
  \A i \in DOMAIN q.calls :
    LET sql == q.calls[i] IN
    sql.k \in {"page_active", "page_search"} =>
      /\ sql.sort_by \in AllowedColumns(sql.t)
      /\ sql.sort_by = IF q.data.sort_by \in AllowedColumns(sql.t) THEN q.data.sort_by
                       ELSE DefaultColumn(sql.t)
      /\ Upper(sql.sort_order) \in {"ASC", "DESC"}
      /\ sql.sort_order = IF Upper(q.data.sort_order) \in {"ASC", "DESC"}
                          THEN q.data.sort_order ELSE "ASC"

SortFailed(q) == q.out.kind = "raise" /\ q.out.msg = "AttributeError"

\* C23 as claimed: whatever sort_by and sort_order a list or search is
\* called with, it does not fail because of them, the column of its ORDER BY
\* clause is in the allow-list of the entity (the default column when the
\* requested one is outside) and the direction is ASC or DESC (ASC when the
\* requested one is neither).
C23_AsClaimed ==
  \A r \in Reqs :
    LET q == req[r] IN
    (ListRequest(q) /\ q.op # "list_units_api") => ~SortFailed(q) /\ OrderByAsClaimed(q)

\* What holds: so it is for every sort_by, null included, and every
\* sort_order that is a string.
C23_StringOrder ==
  \A r \in Reqs :
    LET q == req[r] IN
    (ListRequest(q) /\ q.op # "list_units_api" /\ q.data.sort_order # None)
      => ~SortFailed(q) /\ OrderByAsClaimed(q)

\* a list request with sort_order null failed in the service and was
\* answered 500
C23_NullOrderFails ==
  \E r \in Reqs :
    /\ ListRequest(req[r]) /\ req[r].op = "get_units" /\ req[r].pc = "done"
    /\ req[r].data.sort_order = None /\ req[r].calls = <<>>
    /\ SortFailed(req[r]) /\ Answer(req[r]).status_code = 500

\* a page was selected for a request with a sort_by outside the allow-list
\* and a sort_order that is no direction
C23_FallbackPlaced ==
  \E r \in Reqs :
    /\ ListRequest(req[r]) /\ req[r].pc = "page"
    /\ req[r].data.sort_by = "id; DROP TABLE Units"
    /\ req[r].data.sort_order = "ASC; DROP TABLE Units"

\* ------------------------------------------------------------------ C21
\* ceil(total / per_page), by its definition
Ceil(total, per_page) ==
  CHOOSE n \in 0..total : n * per_page >= total /\ (n - 1) * per_page < total

\* the page call of the finished list ran the statement the service composed
PageByFallback(q) ==
  \E i \in DOMAIN q.call.log :
    q.call.log[i].e = "exec" /\ q.call.log[i].path = "fallback" /\ q.call.log[i].res = "ok"

\* the result of a get_units that returned is the page the claim describes
PageAsClaimed(q) ==
  LET a == q.data
      res == q.out.val
      active == ActiveRows(q.db0["Units"])
      total == Len(active)
      first == (a.page - 1) * a.per_page
      rest == IF total - first > 0 THEN total - first ELSE 0
      sorted == OrderBy(active, SortColumn("Units", a.sort_by), SortOrder(a.sort_order)) IN
  /\ res.total = total
  /\ res.total_pages = Ceil(total, a.per_page)
  /\ Len(res.items) = IF a.per_page < rest THEN a.per_page ELSE rest
  /\ res.items = [i \in 1..Len(res.items) |->
                    Project(sorted[first + i], ListColumns("Units"))]

ListReturned(q) ==
  ListRequest(q) /\ q.op = "get_units" /\ q.pc = "done" /\ q.out.kind = "return"

\* C21 as claimed: for total >= 0 active rows, page >= 1 and
\* 1 <= per_page <= 100 the list reports total_pages = ceil(total / per_page)
\* and returns exactly min(per_page, max(0, total - (page - 1) * per_page))
\* items, the active rows from offset (page - 1) * per_page in the sort order.
C21_AsClaimed ==
  \A r \in Reqs : ListReturned(req[r]) => PageAsClaimed(req[r])

\* What holds: total and total_pages always; the items when the store has
\* no sp_Unit_GetAll and the statement of get_units ran.
C21_PageOfFallback ==
  \A r \in Reqs :
    LET q == req[r] IN
    ListReturned(q) =>
      /\ q.out.val.total = Len(ActiveRows(q.db0["Units"]))
      /\ q.out.val.total_pages = Ceil(q.out.val.total, q.data.per_page)
      /\ PageByFallback(q) => PageAsClaimed(q)

\* sp_Unit_GetAll answered page 2 of a list of three active units, two to a
\* page, with all three
C21_ProcedureIgnoresPage ==
  \E r \in Reqs :
    /\ ListReturned(req[r]) /\ ~PageByFallback(req[r])
    /\ req[r].data.page = 2 /\ req[r].data.per_page = 2
    /\ req[r].out.val.total = 3 /\ Len(req[r].out.val.items) = 3

\* the statement of get_units answered the same request with the third unit
C21_LastPageOfFallback ==
  \E r \in Reqs :
    /\ ListReturned(req[r]) /\ PageByFallback(req[r])
    /\ req[r].data.page = 2 /\ req[r].data.per_page = 2
    /\ req[r].out.val.total = 3 /\ req[r].out.val.total_pages = 2
    /\ Len(req[r].out.val.items) = 1

\* ------------------------------------------------------------------ C27
\* the header carries nothing: it is absent or empty
NoCredential(authorization) == authorization.header \in {None, ""}

\* the header is a token and nothing else, signed HS256 with the secret of
\* the service, not expired, with a user_id in its payload
GoodCredential(authorization) ==
  /\ authorization.header = "token" /\ authorization.text = ""
  /\ authorization.token.alg = "HS256"
  /\ authorization.token.key = "super_secret_key"
  /\ authorization.token.exp # "past"
  /\ Has(authorization.token.payload, "user_id")

\* the request has reached a service function or the database
Reached(q) == q.op \notin {"create", "list_units_api"} \/ q.calls # <<>> \/ q.call # NoCall

\* C27: on the endpoints behind token_required a service function is
\* called, and the database used, only for a request whose Authorization
\* header is a good credential, as the user it names; any other request is
\* answered 401 without reaching either, "Token required" when the header
\* carries nothing and "Invalid or expired token" for every other failure.
C27_Gate ==
  \A r \in Reqs :
    LET q == req[r]
        authorization == Request(q).authorization IN
    (q.op \notin {"idle", "login", "login_user"}) =>
      IF GoodCredential(authorization)
      THEN q.user = authorization.token.payload.user_id
      ELSE /\ ~Reached(q) /\ q.pc = "done" /\ q.db0 = db
           /\ Answer(q) = error_response(IF NoCredential(authorization)
                                         THEN "Token required"
                                         ELSE "Invalid or expired token", None, 401)

\* an expired token was turned down at /unit/create
C27_Witness ==
  \E r \in Reqs :
    LET q == req[r] IN
    /\ q.op = "create" /\ Request(q).authorization.header = "token"
    /\ Request(q).authorization.token.exp = "past"
    /\ Answer(q).message = "Invalid or expired token"

\* the token login issues took a create as far as its INSERT
C27_Admitted ==
  \E r \in Reqs :
    /\ req[r].op = "create_unit" /\ req[r].pc = "insert"
    /\ Request(req[r]).authorization.token = generate_token(1)

\* ------------------------------------------------------------------ C28
LoginReturned(q) == q.op = "login_user" /\ q.pc = "done"

Hardcoded(data) == Get(data, "username") = "admin" /\ Get(data, "password") = "admin123"

AllClosed(q) == \A c \in DOMAIN q.conns : q.conns[c] = "closed"

\* C28 as claimed: when the lookup completes, a token is issued exactly
\* when it returned an id, and for that id; admin / admin123 is accepted as
\* user 1 when the lookup fails, and only then; every connection obtained
\* for the lookup is closed when login_user returns.
C28_AsClaimed ==
  \A r \in Reqs :
    LET q == req[r] IN
    LoginReturned(q) =>
      /\ q.out.val = IF Failed(q)
                     THEN (IF Hardcoded(q.data) THEN generate_token(1) ELSE NoneValue)
                     ELSE (IF Rows(q) # <<>> THEN generate_token(Rows(q)[1].id)
                           ELSE NoneValue)
      /\ AllClosed(q)

\* What holds: an id the lookup returned gets the token; otherwise
\* admin / admin123 gets the token of user 1 and anything else none,
\* whether the lookup failed or found no row; the connection a completed
\* lookup returned is closed.
C28_LookupFirst ==
  \A r \in Reqs :
    LET q == req[r] IN
    LoginReturned(q) =>
      /\ q.out.val = IF ~Failed(q) /\ Rows(q) # <<>> THEN generate_token(Rows(q)[1].id)
                     ELSE IF Hardcoded(q.data) THEN generate_token(1)
                     ELSE NoneValue
      /\ ~Failed(q) => AllClosed(q)

\* the lookup completed without a row for admin / admin123, and login_user
\* returned the token of user 1
C28_HardcodedWithoutError ==
  \E r \in Reqs :
    /\ LoginReturned(req[r]) /\ ~Failed(req[r]) /\ Rows(req[r]) = <<>>
    /\ Hardcoded(req[r].data) /\ req[r].out.val = generate_token(1)
    /\ Answer(req[r]).status_code = 200

\* login_user returned while a connection of its lookup was open
C28_ConnectionLeft ==
  \E r \in Reqs : LoginReturned(req[r]) /\ ~AllClosed(req[r])

\* the lookup found the account stored as user 2, and the token is for 2
C28_StoredAccount ==
  \E r \in Reqs :
    /\ LoginReturned(req[r]) /\ ~Failed(req[r])
    /\ req[r].out.val = generate_token(2) /\ AllClosed(req[r])

====
